---------------------------- MODULE Spec2Model ----------------------------
(***************************************************************************)
(* Model of src/wallet/walletdb.cpp: the wallet record codec               *)
(* (ReadKeyValue), the load pipeline (WalletBatch::LoadWallet) and the      *)
(* read-only companion scan (WalletBatch::FindWalletTx).                    *)
(*                                                                         *)
(* A raw store record is [tag, dmg, key, val, marker, pos, extra]:         *)
(*   tag    the type tag, first element of the serialized key              *)
(*   dmg    how the bytes are damaged:                                     *)
(*            "none"    well formed and valid                              *)
(*            "tag"     the type tag itself cannot be deserialized         *)
(*            "key"     the key fields after the tag cannot be             *)
(*                      deserialized                                       *)
(*            "value"   the value bytes cannot be deserialized             *)
(*            "invalid" well formed, fails the codec's validity check      *)
(*                      (invalid pubkey, CheckTransaction, hash            *)
(*                      disagreement, unknown wallet flags)                *)
(*            "load"    well formed, the wallet's load callback            *)
(*                      returns false                                      *)
(*   key    the key field (address, tx hash, pubkey, master key id)        *)
(*   val    the value (name, private key, version number, ...)             *)
(*   marker, pos, extra   tx only: fTimeReceivedIsTxTime, nOrderPos and    *)
(*          the bytes that follow the transaction in the value             *)
(*          ("none", "full": fTmp fUnused string, "short": truncated);     *)
(*          for key/wkey extra is the trailing integrity hash              *)
(*          ("none", "hash": equal to Hash(pubkey||privkey), "badhash")    *)
(***************************************************************************)
EXTENDS Integers, Sequences, FiniteSets, TLC

VARIABLES
    store,              \* the key-value store, in cursor order
    store0,             \* the store as it was before the operation
    op,                 \* the running operation: "none", "LoadWallet", "FindWalletTx"
    pc,                 \* its position: "idle", "scan", "finalize", "done"
    cursor,             \* number of records the cursor has returned
    result,             \* DBErrors result (local of the operation)
    fNoncriticalErrors, \* local of LoadWallet
    wss,                \* CWalletScanState
    wallet,             \* the CWallet the records are loaded into
    returned,           \* the DBErrors value returned, "none" while running
    rkv,                \* ReadKeyValue's return per scanned record: [strType, ok]
    dbops,              \* the writes issued to the store: [op, arg, ok]
    rescan,             \* gArgs "-rescan" soft-set
    vTxHash,            \* FindWalletTx output
    vWtx,               \* FindWalletTx output
    pcursor,            \* the cursor: "none", "null" (GetCursor failed), "open", "closed"
    dbError,            \* engine failure met by the scan: "none", "ReadAtCursor", "exception"
    bk,                 \* AutoBackupWallet: nWalletBackups, the backup directory, the last call
    mc,                 \* MaybeCompactWalletDB: the guard, the callers, the database handles
    rcv,                \* RecoverKeysOnlyFilter: per raw record its verdict
    zap,                \* ZapSelectTx / ZapWalletTx: the call, its lists, its erasures
    batch                  \* the point writes and reads made on the batch: a call log

\* the state of the load and scan operations
loadVars == <<store, store0, op, pc, cursor, result, fNoncriticalErrors, wss,
              wallet, returned, rkv, dbops, rescan, vTxHash, vWtx, pcursor, dbError>>

\* the state of the other operations
ext == <<bk, mc, rcv, zap, batch>>

vars == <<loadVars, ext>>

----------------------------------------------------------------------------
(* Bounds and program constants                                            *)

MaxRecords == 3

\* AutoBackupWallet calls in a run
MaxCalls == 2

\* the largest retention the operator configures
MaxBackups == 2

\* the longest target list ZapSelectTx is called with
MaxTargets == 3

\* threads calling MaybeCompactWalletDB
MaxThreads == 2

\* database updates per wallet in a run
MaxUpdates == 1

\* seconds the clock advances in a run
MaxTime == 2

\* point operations (WriteBestBlock, ReadBestBlock, WriteCryptedKey) in a run
MaxBatchCalls == 2

FEATURE_LATEST == 169900

CLIENT_VERSION == 170000

----------------------------------------------------------------------------
(* Raw records                                                             *)

Rec(tag, dmg, key, val) ==
    [tag |-> tag, dmg |-> dmg, key |-> key, val |-> val,
     marker |-> 0, pos |-> 0, extra |-> "none"]

KeyRec(tag, dmg, pub, priv, hash) ==
    [tag |-> tag, dmg |-> dmg, key |-> pub, val |-> priv,
     marker |-> 0, pos |-> 0, extra |-> hash]

TxRec(dmg, hash, marker, pos, extra, fTmp) ==
    [tag |-> "tx", dmg |-> dmg, key |-> hash, val |-> fTmp,
     marker |-> marker, pos |-> pos, extra |-> extra]

----------------------------------------------------------------------------
(* Maps with a growing domain (std::map)                                   *)

EmptyMap == [x \in {} |-> 0]

MapSet(m, k, v) == [x \in (DOMAIN m) \cup {k} |-> IF x = k THEN v ELSE m[x]]

\* std::map::operator[]: inserts a value-initialized element when absent
MapIndex(m, k, dflt) == IF k \in DOMAIN m THEN m ELSE MapSet(m, k, dflt)

\* std::map::emplace: leaves an existing element alone
MapEmplace(m, k, v) == IF k \in DOMAIN m THEN m ELSE MapSet(m, k, v)

----------------------------------------------------------------------------
(* The wallet model (external): fields ReadKeyValue and LoadWallet write   *)
(* directly, and the log of the load callbacks it accepted.                 *)

\* CAddressBookData(): strings are numbered, 0 is the constructor's value
\* (name empty, purpose "unknown")
CAddressBookData == [name |-> 0, purpose |-> 0]

NewWallet ==
    [mapAddressBook  |-> EmptyMap,
     mapWallet       |-> EmptyMap,
     mapMasterKeys   |-> EmptyMap,
     nMasterKeyMaxID |-> 0,
     nOrderPosNext   |-> 0,
     walletVersion   |-> 0,
     reordered       |-> "none",   \* what ReorderTransactions returned
     calls           |-> <<>>]

Call(w, name, arg) == [w EXCEPT !.calls = Append(@, <<name, arg>>)]

\* CWallet::LoadToWallet: mapWallet.emplace(hash, wtx)
LoadToWallet(w, hash, wtx) ==
    Call([w EXCEPT !.mapWallet = MapEmplace(@, hash, wtx)], "LoadToWallet", hash)

\* DecodeDestination: a string that is no valid address gives CNoDestination (0)
DecodeDestination(strAddress) == IF strAddress > 0 THEN strAddress ELSE 0

\* CKey::Load(privkey, pubkey, fSkipCheck): privkey 0 is malformed; unless the
\* check is skipped the public key is re-derived and compared
KeyLoad(priv, pub, fSkipCheck) == priv # 0 /\ (fSkipCheck \/ priv = pub)

NewScanState ==
    [nKeys |-> 0, nCKeys |-> 0, nWatchKeys |-> 0, nKeyMeta |-> 0,
     m_unknown_records |-> 0, fIsEncrypted |-> FALSE, fAnyUnordered |-> FALSE,
     nFileVersion |-> 0, vWalletUpgrade |-> <<>>]

----------------------------------------------------------------------------
(* ReadKeyValue: decode one record and apply it to the wallet and the scan *)
(* state.  Returns [ok, strType, wallet, wss]; every exception is caught    *)
(* and turned into ok = FALSE, with the changes made before the throw kept. *)

Ret(ok, strType, w, s) == [ok |-> ok, strType |-> strType, wallet |-> w, wss |-> s]

\* strType == "name" / "purpose": the address book element is looked up with
\* operator[] before the value is deserialized into its field
ReadAddressBook(w, s, r, field) ==
    IF r.dmg = "key" THEN Ret(FALSE, r.tag, w, s)
    ELSE LET dest == DecodeDestination(r.key)
             w1   == [w EXCEPT !.mapAddressBook = MapIndex(@, dest, CAddressBookData)]
         IN IF r.dmg = "value" THEN Ret(FALSE, r.tag, w1, s)
            ELSE Ret(TRUE, r.tag,
                     [w1 EXCEPT !.mapAddressBook[dest][field] = r.val], s)

\* fAnyUnordered assigned from every transaction instead of only ever set
ReadTxOverwritesUnordered(w, s, r) ==
    IF r.dmg \in {"key", "value"} THEN Ret(FALSE, "tx", w, s)
    ELSE IF r.dmg = "invalid" THEN Ret(FALSE, "tx", w, s)
    ELSE LET inWindow == 31404 <= r.marker /\ r.marker <= 31703
         IN IF inWindow /\ r.extra = "short" THEN Ret(FALSE, "tx", w, s)
            ELSE LET fTime == IF inWindow
                              THEN (IF r.extra # "none" THEN r.val ELSE 0)
                              ELSE r.marker
                     s1 == IF inWindow
                           THEN [s EXCEPT !.vWalletUpgrade = Append(@, r.key)]
                           ELSE s
                     s2 == [s1 EXCEPT !.fAnyUnordered = (r.pos = -1)]
                     wtx == [fTimeReceivedIsTxTime |-> fTime, nOrderPos |-> r.pos]
                 IN Ret(TRUE, "tx", LoadToWallet(w, r.key, wtx), s2)

\* the legacy window taken without its two end markers
ReadTxOpenWindow(w, s, r) ==
    IF r.dmg \in {"key", "value"} THEN Ret(FALSE, "tx", w, s)
    ELSE IF r.dmg = "invalid" THEN Ret(FALSE, "tx", w, s)
    ELSE LET inWindow == 31404 < r.marker /\ r.marker < 31703
         IN IF inWindow /\ r.extra = "short" THEN Ret(FALSE, "tx", w, s)
            ELSE LET fTime == IF inWindow
                              THEN (IF r.extra # "none" THEN r.val ELSE 0)
                              ELSE r.marker
                     s1 == IF inWindow
                           THEN [s EXCEPT !.vWalletUpgrade = Append(@, r.key)]
                           ELSE s
                     s2 == IF r.pos = -1
                           THEN [s1 EXCEPT !.fAnyUnordered = TRUE]
                           ELSE s1
                     wtx == [fTimeReceivedIsTxTime |-> fTime, nOrderPos |-> r.pos]
                 IN Ret(TRUE, "tx", LoadToWallet(w, r.key, wtx), s2)

\* strType == "tx"
ReadTx(w, s, r) ==
    IF r.dmg \in {"key", "value"} THEN Ret(FALSE, "tx", w, s)
    ELSE IF r.dmg = "invalid" THEN Ret(FALSE, "tx", w, s)
    ELSE LET inWindow == 31404 <= r.marker /\ r.marker <= 31703
         IN IF inWindow /\ r.extra = "short" THEN Ret(FALSE, "tx", w, s)
            ELSE LET fTime == IF inWindow
                              THEN (IF r.extra # "none" THEN r.val ELSE 0)
                              ELSE r.marker
                     s1 == IF inWindow
                           THEN [s EXCEPT !.vWalletUpgrade = Append(@, r.key)]
                           ELSE s
                     s2 == IF r.pos = -1
                           THEN [s1 EXCEPT !.fAnyUnordered = TRUE]
                           ELSE s1
                     wtx == [fTimeReceivedIsTxTime |-> fTime, nOrderPos |-> r.pos]
                 IN Ret(TRUE, "tx", LoadToWallet(w, r.key, wtx), s2)

\* strType == "watchs"
ReadWatchs(w, s, r) ==
    LET s1 == [s EXCEPT !.nWatchKeys = @ + 1]
    IN IF r.dmg \in {"key", "value"} THEN Ret(FALSE, "watchs", w, s1)
       ELSE Ret(TRUE, "watchs",
                IF r.val = 1 THEN Call(w, "LoadWatchOnly", r.key) ELSE w, s1)

\* the private key check skipped when the hash is absent, not when it matched
ReadKeySkipsWithoutHash(w, s, r) ==
    IF r.dmg = "key" THEN Ret(FALSE, r.tag, w, s)
    ELSE IF r.dmg = "invalid" THEN Ret(FALSE, r.tag, w, s)
    ELSE LET s1 == IF r.tag = "key" THEN [s EXCEPT !.nKeys = @ + 1] ELSE s
         IN IF r.dmg = "value" THEN Ret(FALSE, r.tag, w, s1)
            ELSE IF r.extra = "badhash" THEN Ret(FALSE, r.tag, w, s1)
            ELSE LET fSkipCheck == (r.extra = "none")
                 IN IF ~KeyLoad(r.val, r.key, fSkipCheck) THEN Ret(FALSE, r.tag, w, s1)
                    ELSE IF r.dmg = "load" THEN Ret(FALSE, r.tag, w, s1)
                    ELSE Ret(TRUE, r.tag, Call(w, "LoadKey", r.key), s1)

\* wkey records counted as plaintext keys too
ReadKeyCountsWKey(w, s, r) ==
    IF r.dmg = "key" THEN Ret(FALSE, r.tag, w, s)
    ELSE IF r.dmg = "invalid" THEN Ret(FALSE, r.tag, w, s)
    ELSE LET s1 == [s EXCEPT !.nKeys = @ + 1]
         IN IF r.dmg = "value" THEN Ret(FALSE, r.tag, w, s1)
            ELSE IF r.extra = "badhash" THEN Ret(FALSE, r.tag, w, s1)
            ELSE LET fSkipCheck == (r.extra = "hash")
                 IN IF ~KeyLoad(r.val, r.key, fSkipCheck) THEN Ret(FALSE, r.tag, w, s1)
                    ELSE IF r.dmg = "load" THEN Ret(FALSE, r.tag, w, s1)
                    ELSE Ret(TRUE, r.tag, Call(w, "LoadKey", r.key), s1)

\* strType == "key" || strType == "wkey"
ReadKey(w, s, r) ==
    IF r.dmg = "key" THEN Ret(FALSE, r.tag, w, s)
    ELSE IF r.dmg = "invalid" THEN Ret(FALSE, r.tag, w, s)
    ELSE LET s1 == IF r.tag = "key" THEN [s EXCEPT !.nKeys = @ + 1] ELSE s
         IN IF r.dmg = "value" THEN Ret(FALSE, r.tag, w, s1)
            ELSE IF r.extra = "badhash" THEN Ret(FALSE, r.tag, w, s1)
            ELSE LET fSkipCheck == (r.extra = "hash")
                 IN IF ~KeyLoad(r.val, r.key, fSkipCheck) THEN Ret(FALSE, r.tag, w, s1)
                    ELSE IF r.dmg = "load" THEN Ret(FALSE, r.tag, w, s1)
                    ELSE Ret(TRUE, r.tag, Call(w, "LoadKey", r.key), s1)

\* a master key of an id already there stored over the old one
ReadMKeyOverwrites(w, s, r) ==
    IF r.dmg \in {"key", "value"} THEN Ret(FALSE, "mkey", w, s)
    ELSE Ret(TRUE, "mkey",
             [w EXCEPT !.mapMasterKeys = MapSet(@, r.key, r.val),
                       !.nMasterKeyMaxID = IF @ < r.key THEN r.key ELSE @], s)

\* strType == "mkey"
ReadMKey(w, s, r) ==
    IF r.dmg \in {"key", "value"} THEN Ret(FALSE, "mkey", w, s)
    ELSE IF r.key \in DOMAIN w.mapMasterKeys THEN Ret(FALSE, "mkey", w, s)
    ELSE Ret(TRUE, "mkey",
             [w EXCEPT !.mapMasterKeys = MapSet(@, r.key, r.val),
                       !.nMasterKeyMaxID = IF @ < r.key THEN r.key ELSE @], s)

\* strType == "ckey"
ReadCKey(w, s, r) ==
    IF r.dmg = "key" THEN Ret(FALSE, "ckey", w, s)
    ELSE IF r.dmg = "invalid" THEN Ret(FALSE, "ckey", w, s)
    ELSE IF r.dmg = "value" THEN Ret(FALSE, "ckey", w, s)
    ELSE LET s1 == [s EXCEPT !.nCKeys = @ + 1]
         IN IF r.dmg = "load" THEN Ret(FALSE, "ckey", w, s1)
            ELSE Ret(TRUE, "ckey", Call(w, "LoadCryptedKey", r.key),
                     [s1 EXCEPT !.fIsEncrypted = TRUE])

\* strType == "keymeta" / "watchmeta"
ReadMeta(w, s, r, callback) ==
    IF r.dmg \in {"key", "value"} THEN Ret(FALSE, r.tag, w, s)
    ELSE Ret(TRUE, r.tag, Call(w, callback, r.key), [s EXCEPT !.nKeyMeta = @ + 1])

\* strType == "defaultkey"
ReadDefaultKey(w, s, r) ==
    IF r.dmg \in {"value", "invalid"} THEN Ret(FALSE, "defaultkey", w, s)
    ELSE Ret(TRUE, "defaultkey", w, s)

\* the version stored as read, without the 10300 -> 300 remap
ReadVersionNoRemap(w, s, r) ==
    IF r.dmg = "value" THEN Ret(FALSE, "version", w, s)
    ELSE Ret(TRUE, "version", w, [s EXCEPT !.nFileVersion = r.val])

\* strType == "version"
ReadVersion(w, s, r) ==
    IF r.dmg = "value" THEN Ret(FALSE, "version", w, s)
    ELSE Ret(TRUE, "version", w,
             [s EXCEPT !.nFileVersion = IF r.val = 10300 THEN 300 ELSE r.val])

\* the tags whose value is handed to a wallet callback: "pool", "cscript",
\* "destdata", "hdchain", "flags"
ReadCallback(w, s, r, callback, arg, mayRefuse) ==
    IF r.dmg \in {"key", "value"} THEN Ret(FALSE, r.tag, w, s)
    ELSE IF mayRefuse /\ r.dmg \in {"invalid", "load"} THEN Ret(FALSE, r.tag, w, s)
    ELSE Ret(TRUE, r.tag, Call(w, callback, arg), s)

\* strType == "orderposnext"
ReadOrderPosNext(w, s, r) ==
    IF r.dmg = "value" THEN Ret(FALSE, "orderposnext", w, s)
    ELSE Ret(TRUE, "orderposnext", [w EXCEPT !.nOrderPosNext = r.val], s)

\* acentry counted as an unknown record
IgnoredTagsNoAcentry == {"bestblock", "bestblock_nomerkle", "minversion"}

\* lines 432-433
IgnoredTags == {"bestblock", "bestblock_nomerkle", "minversion", "acentry"}

ReadKeyValue(w, s, r) ==
    IF r.dmg = "tag" THEN Ret(FALSE, "", w, s)
    ELSE CASE r.tag = "name"         -> ReadAddressBook(w, s, r, "name")
           [] r.tag = "purpose"      -> ReadAddressBook(w, s, r, "purpose")
           [] r.tag = "tx"           -> ReadTx(w, s, r)
           [] r.tag = "watchs"       -> ReadWatchs(w, s, r)
           [] r.tag \in {"key", "wkey"} -> ReadKey(w, s, r)
           [] r.tag = "mkey"         -> ReadMKey(w, s, r)
           [] r.tag = "ckey"         -> ReadCKey(w, s, r)
           [] r.tag = "keymeta"      -> ReadMeta(w, s, r, "LoadKeyMetadata")
           [] r.tag = "watchmeta"    -> ReadMeta(w, s, r, "LoadScriptMetadata")
           [] r.tag = "defaultkey"   -> ReadDefaultKey(w, s, r)
           [] r.tag = "pool"         -> ReadCallback(w, s, r, "LoadKeyPool", r.key, FALSE)
           [] r.tag = "version"      -> ReadVersion(w, s, r)
           [] r.tag = "cscript"      -> ReadCallback(w, s, r, "LoadCScript", r.key, TRUE)
           [] r.tag = "orderposnext" -> ReadOrderPosNext(w, s, r)
           [] r.tag = "destdata"     -> ReadCallback(w, s, r, "LoadDestData", r.key, FALSE)
           [] r.tag = "hdchain"      -> ReadCallback(w, s, r, "SetHDChain", r.val, FALSE)
           [] r.tag = "flags"        -> ReadCallback(w, s, r, "SetWalletFlags", r.val, TRUE)
           [] OTHER -> IF r.tag \notin IgnoredTags
                       THEN Ret(TRUE, r.tag, w, [s EXCEPT !.m_unknown_records = @ + 1])
                       ELSE Ret(TRUE, r.tag, w, s)

\* IsKeyType without the legacy wrapped key
IsKeyTypeNoWKey(strType) == strType \in {"key", "mkey", "ckey"}

IsKeyType(strType) == strType \in {"key", "wkey", "mkey", "ckey"}

----------------------------------------------------------------------------
(* The key-value store adapter (external): point read and write by key     *)

\* the records stored under the exact key (tag, key)
SlotOf(st, tag, key) ==
    {i \in 1..Len(st) : st[i].tag = tag /\ st[i].key = key
                        /\ st[i].dmg \notin {"tag", "key"}}

\* m_batch.Read(key, value): false when the key is absent or the value does
\* not deserialize
StoreRead(st, tag, key) ==
    LET I == SlotOf(st, tag, key)
    IN IF I = {} THEN [found |-> FALSE, value |-> 0]
       ELSE LET r == st[CHOOSE i \in I : \A j \in I : i <= j]
            IN IF r.dmg = "value" THEN [found |-> FALSE, value |-> 0]
               ELSE [found |-> TRUE, value |-> r.val]

\* WriteIC(key, value) with overwrite: replaces the record under the key, or
\* adds one
StoreWrite(st, rec) ==
    LET I == SlotOf(st, rec.tag, rec.key)
    IN IF I = {} THEN Append(st, rec)
       ELSE [i \in 1..Len(st) |-> IF i \in I THEN rec ELSE st[i]]

\* WalletBatch::WriteTx(wtx): the record the transaction serializes to
WriteTx(hash, wtx) ==
    TxRec("none", hash, wtx.fTimeReceivedIsTxTime, wtx.nOrderPos, "none", 0)

\* BerkeleyBatch::WriteVersion(nVersion)
WriteVersion(nVersion) == Rec("version", "none", 0, nVersion)

----------------------------------------------------------------------------
(* LoadWallet                                                              *)

\* the per-record classification of a ReadKeyValue failure, lines 489-505:
\* [result, fNoncriticalErrors, rescan] after the record
Classify(ok, strType, res, fNonc, fRescan) ==
    IF ok THEN [result |-> res, fNoncriticalErrors |-> fNonc, rescan |-> fRescan]
    ELSE IF IsKeyType(strType) \/ strType = "defaultkey"
         THEN [result |-> "CORRUPT", fNoncriticalErrors |-> fNonc, rescan |-> fRescan]
    ELSE IF strType = "flags"
         THEN [result |-> "TOO_NEW", fNoncriticalErrors |-> fNonc, rescan |-> fRescan]
    ELSE [result |-> res, fNoncriticalErrors |-> TRUE,
          rescan |-> (fRescan \/ strType = "tx")]

\* the early return of line 525 left out
SkipsMigrationNever(res) == FALSE

\* the early return of line 525 taken on fatal results only
SkipsMigrationFatalOnly(res) == res \in {"CORRUPT", "TOO_NEW"}

\* line 525: any result but DB_LOAD_OK skips every rewriting and upgrading step
SkipsMigration(res) == res # "OK"

\* the rewrite test with version 0.5.0rc left out
NeedsRewriteOnly040(s) == s.fIsEncrypted /\ s.nFileVersion = 40000

\* line 541: encrypted wallets of versions 0.4.0 and 0.5.0rc
NeedsRewrite(s) ==
    s.fIsEncrypted /\ (s.nFileVersion = 40000 \/ s.nFileVersion = 50000)

\* the minversion compared with the client's version, not the wallet
\* feature level
TooNewClientVersion(mv) == mv.found /\ mv.value > CLIENT_VERSION

\* lines 460 and 561
TooNew(mv) == mv.found /\ mv.value > FEATURE_LATEST

\* CWallet::ReorderTransactions returns a DBErrors value
ReorderOutcomes == {"OK", "LOAD_FAIL"}

\* the WriteTx loop of line 537: hashes i..Len(q) of the queue, failTx the
\* positions whose write the store refuses
RECURSIVE UpgradeTxs(_, _, _, _, _)
UpgradeTxs(st, ops, w, q, failTx) ==
    IF q = <<>> THEN [store |-> st, dbops |-> ops]
    ELSE LET hash == Head(q)
             n    == Len(ops) + 1
             okW  == n \notin failTx
         IN UpgradeTxs(IF okW THEN StoreWrite(st, WriteTx(hash, w.mapWallet[hash])) ELSE st,
                       Append(ops, [op |-> "WriteTx", arg |-> hash, ok |-> okW]),
                       w, Tail(q), failTx)

\* lines 518-551: [returned, wallet, store, dbops]
FinalizeLoad(st, w, s, res, fNonc, failTx, versionOK, reorder) ==
    LET res1 == IF fNonc /\ res = "OK" THEN "NONCRITICAL_ERROR" ELSE res
        w1   == [w EXCEPT !.walletVersion = s.nFileVersion]
    IN IF SkipsMigration(res1)
       THEN [returned |-> res1, wallet |-> w1, store |-> st, dbops |-> <<>>]
       ELSE LET w2 == IF (s.nKeys + s.nCKeys + s.nWatchKeys) # s.nKeyMeta
                      THEN Call(w1, "UpdateTimeFirstKey", 1)
                      ELSE w1
                up == UpgradeTxs(st, <<>>, w2, s.vWalletUpgrade, failTx)
            IN IF NeedsRewrite(s)
               THEN [returned |-> "NEED_REWRITE", wallet |-> w2,
                     store |-> up.store, dbops |-> up.dbops]
               ELSE LET bump == s.nFileVersion < CLIENT_VERSION
                        st3  == IF bump /\ versionOK
                                THEN StoreWrite(up.store, WriteVersion(CLIENT_VERSION))
                                ELSE up.store
                        ops3 == IF bump
                                THEN Append(up.dbops, [op |-> "WriteVersion",
                                                       arg |-> CLIENT_VERSION,
                                                       ok |-> versionOK])
                                ELSE up.dbops
                    IN IF s.fAnyUnordered
                       THEN [returned |-> reorder,
                             wallet |-> Call([w2 EXCEPT !.reordered = reorder],
                                             "ReorderTransactions", 0),
                             store |-> st3, dbops |-> ops3]
                       ELSE [returned |-> res1, wallet |-> w2,
                             store |-> st3, dbops |-> ops3]

\* lines 451-471: the minversion check, LoadMinVersion and GetCursor
LoadWalletBegin ==
    /\ pc = "idle"
    /\ op' = "LoadWallet"
    /\ LET mv == StoreRead(store, "minversion", 0)
       IN IF TooNew(mv)
          THEN /\ pc' = "done"
               /\ returned' = "TOO_NEW"
               /\ UNCHANGED <<wallet, pcursor>>
          ELSE \E cursorOK \in BOOLEAN :
                 /\ wallet' = IF mv.found
                              THEN Call(wallet, "LoadMinVersion", mv.value)
                              ELSE wallet
                 /\ IF cursorOK
                    THEN pc' = "scan" /\ returned' = returned /\ pcursor' = "open"
                    ELSE pc' = "done" /\ returned' = "CORRUPT" /\ pcursor' = "null"
    /\ UNCHANGED <<store, store0, cursor, result, fNoncriticalErrors, wss,
                   rkv, dbops, rescan, vTxHash, vWtx, dbError>>
    /\ UNCHANGED ext

\* the scan loop left at the first record ReadKeyValue fails on
LoadWalletReadRecordStops ==
    /\ op = "LoadWallet" /\ pc = "scan"
    /\ cursor < Len(store)
    /\ LET r  == store[cursor + 1]
           kv == ReadKeyValue(wallet, wss, r)
           c  == Classify(kv.ok, kv.strType, result, fNoncriticalErrors, rescan)
       IN /\ wallet' = kv.wallet
          /\ wss' = kv.wss
          /\ result' = c.result
          /\ fNoncriticalErrors' = c.fNoncriticalErrors
          /\ rescan' = c.rescan
          /\ rkv' = Append(rkv, [strType |-> kv.strType, ok |-> kv.ok])
          /\ pc' = IF kv.ok THEN pc ELSE "finalize"
          /\ pcursor' = IF kv.ok THEN pcursor ELSE "closed"
    /\ cursor' = cursor + 1
    /\ UNCHANGED <<store, store0, op, returned, dbops, vTxHash, vWtx, dbError>>
    /\ UNCHANGED ext

\* lines 473-508, ReadAtCursor returned a record
LoadWalletReadRecord ==
    /\ op = "LoadWallet" /\ pc = "scan"
    /\ cursor < Len(store)
    /\ LET r  == store[cursor + 1]
           kv == ReadKeyValue(wallet, wss, r)
           c  == Classify(kv.ok, kv.strType, result, fNoncriticalErrors, rescan)
       IN /\ wallet' = kv.wallet
          /\ wss' = kv.wss
          /\ result' = c.result
          /\ fNoncriticalErrors' = c.fNoncriticalErrors
          /\ rescan' = c.rescan
          /\ rkv' = Append(rkv, [strType |-> kv.strType, ok |-> kv.ok])
    /\ cursor' = cursor + 1
    /\ UNCHANGED <<store, store0, op, pc, returned, dbops, vTxHash, vWtx,
                   pcursor, dbError>>
    /\ UNCHANGED ext

\* lines 479-480 and 509: DB_NOTFOUND ends the scan
LoadWalletCursorEnd ==
    /\ op = "LoadWallet" /\ pc = "scan"
    /\ cursor = Len(store)
    /\ pc' = "finalize"
    /\ pcursor' = "closed"
    /\ UNCHANGED <<store, store0, op, cursor, result, fNoncriticalErrors, wss,
                   wallet, returned, rkv, dbops, rescan, vTxHash, vWtx, dbError>>
    /\ UNCHANGED ext

\* lines 481-485: ReadAtCursor fails, LoadWallet returns at once
LoadWalletCursorError ==
    /\ op = "LoadWallet" /\ pc = "scan"
    /\ pc' = "done"
    /\ returned' = "CORRUPT"
    /\ dbError' = "ReadAtCursor"
    /\ UNCHANGED <<store, store0, op, cursor, result, fNoncriticalErrors, wss,
                   wallet, rkv, dbops, rescan, vTxHash, vWtx, pcursor>>
    /\ UNCHANGED ext

\* lines 514-516: an exception escapes the scan
LoadWalletException ==
    /\ op = "LoadWallet" /\ pc = "scan"
    /\ result' = "CORRUPT"
    /\ pc' = "finalize"
    /\ dbError' = "exception"
    /\ UNCHANGED <<store, store0, op, cursor, fNoncriticalErrors, wss,
                   wallet, returned, rkv, dbops, rescan, vTxHash, vWtx, pcursor>>
    /\ UNCHANGED ext

\* lines 518-551
LoadWalletFinalize ==
    /\ op = "LoadWallet" /\ pc = "finalize"
    /\ \E failTx \in SUBSET (1..Len(wss.vWalletUpgrade)), versionOK \in BOOLEAN,
          reorder \in ReorderOutcomes :
         LET f == FinalizeLoad(store, wallet, wss, result, fNoncriticalErrors,
                               failTx, versionOK, reorder)
         IN /\ returned' = f.returned
            /\ wallet' = f.wallet
            /\ store' = f.store
            /\ dbops' = f.dbops
    /\ pc' = "done"
    /\ UNCHANGED <<store0, op, cursor, result, fNoncriticalErrors, wss,
                   rkv, rescan, vTxHash, vWtx, pcursor, dbError>>
    /\ UNCHANGED ext

----------------------------------------------------------------------------
(* FindWalletTx                                                            *)

\* lines 555-571
FindWalletTxBegin ==
    /\ pc = "idle"
    /\ op' = "FindWalletTx"
    /\ LET mv == StoreRead(store, "minversion", 0)
       IN IF TooNew(mv)
          THEN pc' = "done" /\ returned' = "TOO_NEW" /\ pcursor' = pcursor
          ELSE \E cursorOK \in BOOLEAN :
                 IF cursorOK
                 THEN pc' = "scan" /\ returned' = returned /\ pcursor' = "open"
                 ELSE pc' = "done" /\ returned' = "CORRUPT" /\ pcursor' = "null"
    /\ UNCHANGED <<store, store0, cursor, result, fNoncriticalErrors, wss,
                   wallet, rkv, dbops, rescan, vTxHash, vWtx, dbError>>
    /\ UNCHANGED ext

\* a record that does not deserialize is passed over
FindWalletTxReadRecordSkips ==
    /\ op = "FindWalletTx" /\ pc = "scan"
    /\ cursor < Len(store)
    /\ LET r == store[cursor + 1]
       IN /\ UNCHANGED <<result, pc, returned, dbError>>
          /\ IF r.tag = "tx" /\ r.dmg \notin {"tag", "key", "value"}
             THEN /\ vTxHash' = Append(vTxHash, r.key)
                  /\ vWtx' = Append(vWtx, [fTimeReceivedIsTxTime |-> r.marker,
                                           nOrderPos |-> r.pos])
             ELSE UNCHANGED <<vTxHash, vWtx>>
    /\ cursor' = cursor + 1
    /\ UNCHANGED <<store, store0, op, fNoncriticalErrors, wss, wallet, rkv,
                   dbops, rescan, pcursor>>
    /\ UNCHANGED ext

\* lines 573-599 and 605-609: a record is read; an exception while
\* deserializing it ends the scan with DB_CORRUPT
FindWalletTxReadRecord ==
    /\ op = "FindWalletTx" /\ pc = "scan"
    /\ cursor < Len(store)
    /\ LET r == store[cursor + 1]
       IN IF r.dmg = "tag" \/ (r.tag = "tx" /\ r.dmg \in {"key", "value"})
          THEN /\ result' = "CORRUPT"
               /\ pc' = "done"
               /\ returned' = "CORRUPT"
               /\ dbError' = "exception"
               /\ UNCHANGED <<vTxHash, vWtx>>
          ELSE /\ UNCHANGED <<result, pc, returned, dbError>>
               /\ IF r.tag = "tx"
                  THEN /\ vTxHash' = Append(vTxHash, r.key)
                       /\ vWtx' = Append(vWtx, [fTimeReceivedIsTxTime |-> r.marker,
                                                nOrderPos |-> r.pos])
                  ELSE UNCHANGED <<vTxHash, vWtx>>
    /\ cursor' = cursor + 1
    /\ UNCHANGED <<store, store0, op, fNoncriticalErrors, wss, wallet, rkv,
                   dbops, rescan, pcursor>>
    /\ UNCHANGED ext

\* lines 579-580, 600 and 609
FindWalletTxCursorEnd ==
    /\ op = "FindWalletTx" /\ pc = "scan"
    /\ cursor = Len(store)
    /\ pc' = "done"
    /\ returned' = result
    /\ pcursor' = "closed"
    /\ UNCHANGED <<store, store0, op, cursor, result, fNoncriticalErrors, wss,
                   wallet, rkv, dbops, rescan, vTxHash, vWtx, dbError>>
    /\ UNCHANGED ext

\* lines 581-585 and 605-607: ReadAtCursor fails or throws
FindWalletTxCursorError ==
    /\ op = "FindWalletTx" /\ pc = "scan"
    /\ pc' = "done"
    /\ returned' = "CORRUPT"
    /\ dbError' = "ReadAtCursor"
    /\ UNCHANGED <<store, store0, op, cursor, result, fNoncriticalErrors, wss,
                   wallet, rkv, dbops, rescan, vTxHash, vWtx, pcursor>>
    /\ UNCHANGED ext

----------------------------------------------------------------------------
(* RecoverKeysOnlyFilter, called by the recovery engine (external) for      *)
(* every raw record of the damaged store, in order, with one dummy wallet.  *)

\* the verdict taken from the tag alone
FilterVerdictIgnoresDecode(strType, fReadOK) ==
    IsKeyType(strType) \/ strType = "hdchain"

\* lines 724-732
FilterVerdict(strType, fReadOK) ==
    IF ~IsKeyType(strType) /\ strType # "hdchain" THEN FALSE
    ELSE IF ~fReadOK THEN FALSE
    ELSE TRUE

\* lines 712-733
RecoverKeysOnlyFilter ==
    /\ op \in {"none", "Recover"}
    /\ cursor < Len(store)
    /\ LET r  == store[cursor + 1]
           kv == ReadKeyValue(wallet, NewScanState, r)
       IN /\ wallet' = kv.wallet
          /\ rkv' = Append(rkv, [strType |-> kv.strType, ok |-> kv.ok])
          /\ rcv' = Append(rcv, FilterVerdict(kv.strType, kv.ok))
    /\ op' = "Recover"
    /\ cursor' = cursor + 1
    /\ UNCHANGED <<store, store0, pc, result, fNoncriticalErrors, wss, returned,
                   dbops, rescan, vTxHash, vWtx, pcursor, dbError>>
    /\ UNCHANGED <<bk, mc, zap, batch>>

----------------------------------------------------------------------------
(* ZapSelectTx and ZapWalletTx                                             *)

NewZap ==
    [op |-> "none", pc |-> "idle", targets |-> <<>>, vTxHashIn |-> <<>>,
     vTxHashOut |-> <<>>, erases |-> <<>>, returned |-> "none"]

\* the lists left as the caller passed them
SortHashesNot(q) == q

\* std::sort of a hash list, lines 622-623
SortHashes(q) == SortSeq(q, LAMBDA a, b : a < b)

\* EraseTx(hash) -> EraseIC(("tx", hash)): the store without the record
EraseTx(st, hash) ==
    LET I == SlotOf(st, "tx", hash)
    IN SelectSeq([i \in 1..Len(st) |-> [rec |-> st[i], gone |-> i \in I]],
                 LAMBDA e : ~e.gone)

\* the records of what EraseTx left
Records(es) == [i \in 1..Len(es) |-> es[i].rec]

\* lines 626-642: the walk over the sorted vTxHash from position k, `it` the
\* position in the sorted vTxHashIn; failErase are the hashes whose erase the
\* store refuses.  Gives [store, erases, vTxHashOut].
RECURSIVE ZapWalk(_, _, _, _, _, _)
ZapWalk(z, vHash, vIn, k, it, failErase) ==
    IF k > Len(vHash) THEN z
    ELSE LET hash == vHash[k]
             RECURSIVE Advance(_)
             Advance(j) == IF j <= Len(vIn) /\ vIn[j] < hash THEN Advance(j + 1) ELSE j
             it1 == Advance(it)
         IN IF it1 > Len(vIn) THEN z
            ELSE IF vIn[it1] = hash
            THEN LET okE == hash \notin failErase
                 IN ZapWalk([store |-> IF okE THEN Records(EraseTx(z.store, hash)) ELSE z.store,
                             erases |-> Append(z.erases, [hash |-> hash, ok |-> okE]),
                             vTxHashOut |-> Append(z.vTxHashOut, hash)],
                            vHash, vIn, k + 1, it1, failErase)
            ELSE ZapWalk(z, vHash, vIn, k + 1, it1, failErase)

\* lines 658-662: the erasures from position k of vTxHash, ended by the first
\* one the store refuses.  Gives [store, erases, failed].
RECURSIVE ZapAll(_, _, _, _)
ZapAll(z, vHash, k, failErase) ==
    IF k > Len(vHash) THEN z
    ELSE LET hash == vHash[k]
         IN IF hash \in failErase
            THEN [z EXCEPT !.erases = Append(@, [hash |-> hash, ok |-> FALSE]),
                           !.failed = TRUE]
            ELSE ZapAll([z EXCEPT !.store = Records(EraseTx(@, hash)),
                                  !.erases = Append(@, [hash |-> hash, ok |-> TRUE])],
                        vHash, k + 1, failErase)

\* the transaction hashes of the erase operations' inputs
Hashes == {1, 2, 3}

\* the target lists ZapSelectTx is called with
Targets == UNION {[1..n -> Hashes] : n \in 0..MaxTargets}

\* lines 612-617: the call, up to the call of FindWalletTx
ZapSelectTxBegin ==
    /\ pc = "idle" /\ op = "none" /\ zap.op = "none"
    /\ \E vTxHashIn \in Targets :
         zap' = [zap EXCEPT !.op = "ZapSelectTx", !.pc = "find",
                            !.targets = vTxHashIn, !.vTxHashIn = vTxHashIn]
    /\ UNCHANGED <<loadVars, bk, mc, rcv, batch>>

\* lines 618-647: FindWalletTx has returned
ZapSelectTxErase ==
    /\ zap.op = "ZapSelectTx" /\ zap.pc = "find"
    /\ op = "FindWalletTx" /\ pc = "done"
    /\ IF returned # "OK"
       THEN /\ zap' = [zap EXCEPT !.pc = "done", !.returned = returned]
            /\ store' = store
       ELSE \E failErase \in SUBSET {vTxHash[i] : i \in 1..Len(vTxHash)} :
              LET vIn == SortHashes(zap.vTxHashIn)
                  z   == ZapWalk([store |-> store, erases |-> <<>>, vTxHashOut |-> <<>>],
                                 SortHashes(vTxHash), vIn, 1, 1, failErase)
                  delerror == \E i \in 1..Len(z.erases) : ~z.erases[i].ok
              IN /\ zap' = [zap EXCEPT !.pc = "done",
                                       !.vTxHashIn = vIn,
                                       !.vTxHashOut = z.vTxHashOut,
                                       !.erases = z.erases,
                                       !.returned = IF delerror THEN "CORRUPT" ELSE "OK"]
                 /\ store' = z.store
    /\ UNCHANGED <<store0, op, pc, cursor, result, fNoncriticalErrors, wss, wallet,
                   returned, rkv, dbops, rescan, vTxHash, vWtx, pcursor, dbError>>
    /\ UNCHANGED <<bk, mc, rcv, batch>>

\* lines 650-654: the call, up to the call of FindWalletTx
ZapWalletTxBegin ==
    /\ pc = "idle" /\ op = "none" /\ zap.op = "none"
    /\ zap' = [zap EXCEPT !.op = "ZapWalletTx", !.pc = "find"]
    /\ UNCHANGED <<loadVars, bk, mc, rcv, batch>>

\* lines 655-664: FindWalletTx has returned
ZapWalletTxErase ==
    /\ zap.op = "ZapWalletTx" /\ zap.pc = "find"
    /\ op = "FindWalletTx" /\ pc = "done"
    /\ IF returned # "OK"
       THEN /\ zap' = [zap EXCEPT !.pc = "done", !.returned = returned]
            /\ store' = store
       ELSE \E failErase \in SUBSET {vTxHash[i] : i \in 1..Len(vTxHash)} :
              LET z == ZapAll([store |-> store, erases |-> <<>>, failed |-> FALSE],
                              vTxHash, 1, failErase)
              IN /\ zap' = [zap EXCEPT !.pc = "done",
                                       !.erases = z.erases,
                                       !.returned = IF z.failed THEN "CORRUPT" ELSE "OK"]
                 /\ store' = z.store
    /\ UNCHANGED <<store0, op, pc, cursor, result, fNoncriticalErrors, wss, wallet,
                   returned, rkv, dbops, rescan, vTxHash, vWtx, pcursor, dbError>>
    /\ UNCHANGED <<bk, mc, rcv, batch>>

----------------------------------------------------------------------------
(* WriteBestBlock / ReadBestBlock.  A locator is numbered; the locator     *)
(* without hashes (vHave empty) is EmptyLocator.                           *)

EmptyLocator == 0

Locators == {EmptyLocator, 1, 2}

\* a call of the log: the operation, its argument, the results of its
\* writes, its return value and its output parameter
BatchCall(name, arg, writes, ret, out) ==
    [op |-> name, arg |-> arg, writes |-> writes, ret |-> ret, out |-> out]

\* lines 118-122: ok1, ok2 the results of the two WriteIC calls, the first
\* of which is not looked at
WriteBestBlock(st, locator, ok1, ok2) ==
    LET st1 == IF ok1 THEN StoreWrite(st, Rec("bestblock", "none", 0, EmptyLocator))
               ELSE st
        st2 == IF ok2 THEN StoreWrite(st1, Rec("bestblock_nomerkle", "none", 0, locator))
               ELSE st1
    IN [store |-> st2, ret |-> ok2]

\* the bestblock slot returned whenever it can be read
ReadBestBlockFirstSlot(st, locator) ==
    LET r1 == StoreRead(st, "bestblock", 0)
        r2 == StoreRead(st, "bestblock_nomerkle", 0)
    IN IF r1.found THEN [ret |-> TRUE, locator |-> r1.value]
       ELSE [ret |-> r2.found, locator |-> IF r2.found THEN r2.value ELSE locator]

\* lines 124-128: locator the caller's object, which each successful Read
\* overwrites
ReadBestBlock(st, locator) ==
    LET r1 == StoreRead(st, "bestblock", 0)
        l1 == IF r1.found THEN r1.value ELSE locator
        r2 == StoreRead(st, "bestblock_nomerkle", 0)
    IN IF r1.found /\ l1 # EmptyLocator THEN [ret |-> TRUE, locator |-> l1]
       ELSE [ret |-> r2.found, locator |-> IF r2.found THEN r2.value ELSE l1]

CallWriteBestBlock ==
    /\ Len(batch) < MaxBatchCalls
    /\ \E locator \in Locators, ok1, ok2 \in BOOLEAN :
          LET w == WriteBestBlock(store, locator, ok1, ok2)
          IN /\ store' = w.store
             /\ batch' = Append(batch, BatchCall("WriteBestBlock", locator, <<ok1, ok2>>,
                                           w.ret, EmptyLocator))
    /\ UNCHANGED <<store0, op, pc, cursor, result, fNoncriticalErrors, wss, wallet,
                   returned, rkv, dbops, rescan, vTxHash, vWtx, pcursor, dbError>>
    /\ UNCHANGED <<bk, mc, rcv, zap>>

CallReadBestBlock ==
    /\ Len(batch) < MaxBatchCalls
    /\ \E locator \in Locators :
          LET r == ReadBestBlock(store, locator)
          IN batch' = Append(batch, BatchCall("ReadBestBlock", locator, <<>>, r.ret, r.locator))
    /\ UNCHANGED <<loadVars, bk, mc, rcv, zap>>

----------------------------------------------------------------------------
(* WriteCryptedKey                                                         *)

\* WriteIC(key, value, false): refused when a record is stored under the key
StoreWriteNoOverwrite(st, rec, ok) ==
    IF ok /\ SlotOf(st, rec.tag, rec.key) = {}
    THEN [store |-> Append(st, rec), ret |-> TRUE]
    ELSE [store |-> st, ret |-> FALSE]

\* EraseIC(key): the records under the key removed
StoreErase(st, tag, key) ==
    LET I == SlotOf(st, tag, key)
        keep == {i \in 1..Len(st) : i \notin I}
        RECURSIVE Pick(_)
        Pick(i) == IF i > Len(st) THEN <<>>
                   ELSE IF i \in keep THEN <<st[i]>> \o Pick(i + 1)
                   ELSE Pick(i + 1)
    IN Pick(1)

PubKeys == {1, 2}

\* the plaintext records erased before the ckey record is written
WriteCryptedKeyErasesFirst(st, vchPubKey, vchCryptedSecret, okMeta, okCKey, okErase) ==
    IF ~okMeta THEN [store |-> st, ret |-> FALSE]
    ELSE LET st1 == StoreWrite(st, Rec("keymeta", "none", vchPubKey, 0))
             st2 == IF okErase[1] THEN StoreErase(st1, "key", vchPubKey) ELSE st1
             st3 == IF okErase[2] THEN StoreErase(st2, "wkey", vchPubKey) ELSE st2
             w   == StoreWriteNoOverwrite(st3, Rec("ckey", "none", vchPubKey, vchCryptedSecret),
                                          okCKey)
         IN [store |-> w.store, ret |-> w.ret]

\* lines 76-90: okMeta, okCKey whether the store takes the two writes,
\* okErase whether it takes the two erasures, whose results are not looked at
WriteCryptedKey(st, vchPubKey, vchCryptedSecret, okMeta, okCKey, okErase) ==
    IF ~okMeta THEN [store |-> st, ret |-> FALSE]
    ELSE LET st1 == StoreWrite(st, Rec("keymeta", "none", vchPubKey, 0))
             w   == StoreWriteNoOverwrite(st1, Rec("ckey", "none", vchPubKey, vchCryptedSecret),
                                          okCKey)
         IN IF ~w.ret THEN [store |-> w.store, ret |-> FALSE]
            ELSE LET st2 == IF okErase[1] THEN StoreErase(w.store, "key", vchPubKey)
                            ELSE w.store
                     st3 == IF okErase[2] THEN StoreErase(st2, "wkey", vchPubKey) ELSE st2
                 IN [store |-> st3, ret |-> TRUE]

CallWriteCryptedKey ==
    /\ Len(batch) < MaxBatchCalls
    /\ \E vchPubKey \in PubKeys, okMeta \in BOOLEAN :
       \E okCKey \in (IF okMeta THEN BOOLEAN ELSE {TRUE}) :
       \E okErase \in (IF okMeta /\ okCKey THEN [1..2 -> BOOLEAN] ELSE {<<TRUE, TRUE>>}) :
          LET w == WriteCryptedKey(store, vchPubKey, 7, okMeta, okCKey, okErase)
          IN /\ store' = w.store
             /\ batch' = Append(batch, BatchCall("WriteCryptedKey", vchPubKey,
                                                 <<okMeta, okCKey>> \o okErase, w.ret, 0))
    /\ UNCHANGED <<store0, op, pc, cursor, result, fNoncriticalErrors, wss, wallet,
                   returned, rkv, dbops, rescan, vTxHash, vWtx, pcursor, dbError>>
    /\ UNCHANGED <<bk, mc, rcv, zap>>

----------------------------------------------------------------------------
(* AutoBackupWallet.  A file of the backup directory is [stem, stamp,       *)
(* mtime]: its name is stem + "." + stamp, where the stem is a wallet file  *)
(* name (numbered) and the stamp the minute DateTimeStrFormat printed;      *)
(* mtime is its last write time.  bk holds nWalletBackups, the directory,   *)
(* the clock, and for the last call its arguments, the directory and        *)
(* nWalletBackups it found, its outputs and the deletions it attempted.     *)

\* the file name of a directory entry
Name(f) == <<f.stem, f.stamp>>

NoFile == <<0, 0>>

\* strWalletFile of the calls, a name (numbered)
WalletStem == 1

NoWarning == [msg |-> "", file |-> NoFile]

NewBackupState(n, exists, dir) ==
    [nWalletBackups   |-> n,
     dirExists        |-> exists,
     dir              |-> dir,
     now              |-> 3,
     calls            |-> 0,
     fWallet          |-> FALSE,
     fLocked          |-> FALSE,
     fSource          |-> FALSE,
     dir0             |-> dir,
     nWalletBackups0  |-> n,
     swept            |-> FALSE,
     attempts         |-> <<>>,
     strBackupWarning |-> NoWarning,
     strBackupError   |-> "",
     ret              |-> "none"]

\* the caller's message strings left as the previous call set them
EnterKeepsMessages(b, fWallet, fLocked, fSource, t) ==
    [b EXCEPT !.calls = @ + 1, !.now = t,
              !.fWallet = fWallet, !.fLocked = fLocked, !.fSource = fSource,
              !.dir0 = b.dir, !.nWalletBackups0 = b.nWalletBackups,
              !.swept = FALSE, !.attempts = <<>>,
              !.ret = "none"]

\* line 944, and the call's arguments and the state it found
Enter(b, fWallet, fLocked, fSource, t) ==
    [b EXCEPT !.calls = @ + 1, !.now = t,
              !.fWallet = fWallet, !.fLocked = fLocked, !.fSource = fSource,
              !.dir0 = b.dir, !.nWalletBackups0 = b.nWalletBackups,
              !.swept = FALSE, !.attempts = <<>>,
              !.strBackupWarning = NoWarning, !.strBackupError = "",
              !.ret = "none"]

\* the locked wallet counted as a warning only
LockedAbortStaysEnabled(b) ==
    [b EXCEPT !.strBackupWarning = [msg |-> "locked", file |-> NoFile],
              !.ret = "false"]

\* lines 976-981
LockedAbort(b) ==
    [b EXCEPT !.strBackupWarning = [msg |-> "locked", file |-> NoFile],
              !.nWalletBackups = -2,
              !.ret = "false"]

\* the name collision disabling the backups as a copy failure does
ExistsAbortDisables(b) ==
    [b EXCEPT !.strBackupWarning = [msg |-> "exists", file |-> NoFile],
              !.nWalletBackups = -1,
              !.ret = "false"]

\* lines 988-993
ExistsAbort(b) ==
    [b EXCEPT !.strBackupWarning = [msg |-> "exists", file |-> NoFile],
              !.ret = "false"]

\* lines 946-1005: everything before the retention sweep; ret stays "none"
\* when the call goes on to the sweep
Snapshot(b, mkdirOK, copyOK) ==
    IF b.nWalletBackups <= 0 THEN [b EXCEPT !.ret = "false"]
    ELSE IF ~b.dirExists /\ ~mkdirOK
    THEN [b EXCEPT !.strBackupError = "mkdir", !.nWalletBackups = -1,
                   !.ret = "false"]
    ELSE LET b1 == [b EXCEPT !.dirExists = TRUE]
             backupFile == <<WalletStem, b.now>>
         IN IF b.fWallet
            THEN IF b.fLocked THEN LockedAbort(b1) ELSE b1
            ELSE IF \E f \in b1.dir : Name(f) = backupFile THEN ExistsAbort(b1)
            ELSE IF ~b.fSource THEN b1
            ELSE IF copyOK
            THEN [b1 EXCEPT !.dir = @ \cup {[stem |-> WalletStem, stamp |-> b.now,
                                              mtime |-> b.now]}]
            ELSE [b1 EXCEPT !.strBackupWarning = [msg |-> "copy", file |-> NoFile],
                            !.nWalletBackups = -1,
                            !.ret = "false"]

\* lines 1008-1026: the wallet's backups keyed by last write time, oldest
\* first; entries of equal time in the order the directory iteration met them
FolderSets(dir, strWalletFile) ==
    LET own == {f \in dir : f.stem = strWalletFile}
        n   == Cardinality(own)
    IN {q \in [1..n -> own] :
           /\ \A i, j \in 1..n : i # j => q[i] # q[j]
           /\ \A i \in 1..n, j \in 1..n : i < j => q[i].mtime <= q[j].mtime}

\* lines 1029-1046: the backward walk over the entries of q not yet visited;
\* failDel are the files fs::remove throws on
RECURSIVE Sweep(_, _, _, _)
Sweep(b, q, counter, failDel) ==
    IF q = <<>> THEN [b EXCEPT !.ret = "true"]
    ELSE LET file == q[Len(q)]
             rest == SubSeq(q, 1, Len(q) - 1)
             c    == counter + 1
         IN IF c > b.nWalletBackups
            THEN IF Name(file) \in failDel
                 THEN [b EXCEPT !.attempts = Append(@, [file |-> Name(file), ok |-> FALSE]),
                                !.strBackupWarning = [msg |-> "delete", file |-> Name(file)],
                                !.ret = "false"]
                 ELSE Sweep([b EXCEPT !.dir = @ \ {file},
                                      !.attempts = Append(@, [file |-> Name(file), ok |-> TRUE])],
                            rest, c, failDel)
            ELSE Sweep(b, rest, c, failDel)

\* lines 940-1050
AutoBackupWallet ==
    /\ bk.calls < MaxCalls
    /\ \E fWallet \in BOOLEAN, t \in {bk.now, bk.now + 1} :
       \E fLocked \in (IF fWallet THEN BOOLEAN ELSE {FALSE}),
          fSource \in (IF fWallet THEN {TRUE} ELSE BOOLEAN),
          mkdirOK \in (IF bk.dirExists THEN {TRUE} ELSE BOOLEAN) :
       \E copyOK \in (IF fWallet \/ ~fSource THEN {TRUE} ELSE BOOLEAN) :
         LET b1 == Snapshot(Enter(bk, fWallet, fLocked, fSource, t), mkdirOK, copyOK)
         IN IF b1.ret # "none" THEN bk' = b1
            ELSE \E q \in FolderSets(b1.dir, WalletStem) :
                 \E failDel \in SUBSET {Name(q[i]) : i \in 1..Len(q)} :
                     bk' = Sweep([b1 EXCEPT !.swept = TRUE], q, 0, failDel)
    /\ UNCHANGED <<loadVars, mc, rcv, zap, batch>>

----------------------------------------------------------------------------
(* MaybeCompactWalletDB, called by several threads.  mc holds the static    *)
(* fOneThread, the -flushwallet setting, the clock, the database handle of  *)
(* every wallet, and per calling thread its position ("idle", "arg",        *)
(* "loop", "returned"), its place in the wallet list, whether it found the  *)
(* guard taken, and the number of handle writes and flushes it made.        *)

Threads == 1..MaxThreads

\* GetWallets()
Wallets == {1, 2}

NewDBHandle ==
    [nUpdateCounter |-> 0, nLastSeen |-> 0, nLastWalletUpdate |-> 0, nLastFlushed |-> 0]

NewCompactState(fFlushWallet) ==
    [fOneThread  |-> FALSE,
     flushwallet |-> fFlushWallet,
     time        |-> 0,
     dbh         |-> [w \in Wallets |-> NewDBHandle],
     pc          |-> [t \in Threads |-> "idle"],
     next        |-> [t \in Threads |-> 0],
     refused     |-> [t \in Threads |-> FALSE],
     touched     |-> [t \in Threads |-> 0],
     flushes     |-> <<>>]

\* the guard never found taken
GuardTakenNever(fOld) == FALSE

\* line 670: the value fOneThread.exchange(true) returns
GuardTaken(fOld) == fOld

\* lines 669-672
MaybeCompactEnter(t) ==
    /\ mc.pc[t] = "idle"
    /\ IF GuardTaken(mc.fOneThread)
       THEN mc' = [mc EXCEPT !.fOneThread = TRUE, !.pc[t] = "returned",
                             !.refused[t] = TRUE]
       ELSE mc' = [mc EXCEPT !.fOneThread = TRUE, !.pc[t] = "arg"]
    /\ UNCHANGED <<loadVars, bk, rcv, zap, batch>>

\* lines 673-675: the return without -flushwallet leaves fOneThread set
MaybeCompactCheckArg(t) ==
    /\ mc.pc[t] = "arg"
    /\ IF ~mc.flushwallet
       THEN mc' = [mc EXCEPT !.pc[t] = "returned"]
       ELSE mc' = [mc EXCEPT !.pc[t] = "loop", !.next[t] = 1]
    /\ UNCHANGED <<loadVars, bk, rcv, zap, batch>>

\* nLastFlushed set whether or not the flush succeeded
CompactWalletMarksAlways(dbh, now, flushOK) ==
    LET nUpdateCounter == dbh.nUpdateCounter
        seen == dbh.nLastSeen # nUpdateCounter
        d1   == IF seen
                THEN [dbh EXCEPT !.nLastSeen = nUpdateCounter, !.nLastWalletUpdate = now]
                ELSE dbh
        due  == d1.nLastFlushed # nUpdateCounter /\ now - d1.nLastWalletUpdate >= 2
        d2   == IF due THEN [d1 EXCEPT !.nLastFlushed = nUpdateCounter] ELSE d1
    IN [dbh |-> d2,
        touched |-> (IF seen THEN 1 ELSE 0) + (IF due THEN 1 ELSE 0),
        flushed |-> due]

\* lines 678-691, the loop body for one wallet: [dbh, touched, flushed]
CompactWallet(dbh, now, flushOK) ==
    LET nUpdateCounter == dbh.nUpdateCounter
        seen == dbh.nLastSeen # nUpdateCounter
        d1   == IF seen
                THEN [dbh EXCEPT !.nLastSeen = nUpdateCounter, !.nLastWalletUpdate = now]
                ELSE dbh
        due  == d1.nLastFlushed # nUpdateCounter /\ now - d1.nLastWalletUpdate >= 2
        d2   == IF due /\ flushOK THEN [d1 EXCEPT !.nLastFlushed = nUpdateCounter] ELSE d1
    IN [dbh |-> d2,
        touched |-> (IF seen THEN 1 ELSE 0) + (IF due THEN 1 ELSE 0),
        flushed |-> due]

\* lines 677-692: one iteration of the loop over the wallets
MaybeCompactWallet(t) ==
    /\ mc.pc[t] = "loop"
    /\ mc.next[t] \in Wallets
    /\ \E flushOK \in BOOLEAN :
         LET w == mc.next[t]
             c == CompactWallet(mc.dbh[w], mc.time, flushOK)
         IN mc' = [mc EXCEPT !.dbh[w] = c.dbh,
                             !.touched[t] = @ + c.touched,
                             !.flushes = IF c.flushed
                                         THEN Append(@, [wallet |-> w, thread |-> t,
                                                         ok |-> flushOK, time |-> mc.time])
                                         ELSE @,
                             !.next[t] = @ + 1]
    /\ UNCHANGED <<loadVars, bk, rcv, zap, batch>>

\* line 694
MaybeCompactLeave(t) ==
    /\ mc.pc[t] = "loop"
    /\ mc.next[t] \notin Wallets
    /\ mc' = [mc EXCEPT !.fOneThread = FALSE, !.pc[t] = "returned"]
    /\ UNCHANGED <<loadVars, bk, rcv, zap, batch>>

\* a write to wallet w's database elsewhere in the program: nUpdateCounter++
WalletUpdate(w) ==
    /\ mc.dbh[w].nUpdateCounter < MaxUpdates
    /\ mc' = [mc EXCEPT !.dbh[w].nUpdateCounter = @ + 1]
    /\ UNCHANGED <<loadVars, bk, rcv, zap, batch>>

\* GetTime() advances
Tick ==
    /\ mc.time < MaxTime
    /\ mc' = [mc EXCEPT !.time = @ + 1]
    /\ UNCHANGED <<loadVars, bk, rcv, zap, batch>>

----------------------------------------------------------------------------
(* The stores the operations are run on                                    *)

\* the load pipeline's inputs: valid and damaged records of the tags its
\* decisions depend on
Pool ==
    { Rec("name", "none", 1, 1),
      Rec("name", "value", 2, 0),
      Rec("purpose", "value", 2, 0),
      Rec("destdata", "value", 1, 0),
      TxRec("none", 1, 0, -1, "none", 0),
      TxRec("none", 2, 31404, -1, "none", 0),
      TxRec("none", 3, 31703, 5, "full", 1),
      KeyRec("key", "none", 1, 1, "hash"),
      KeyRec("key", "invalid", 2, 2, "hash"),
      Rec("ckey", "none", 4, 1),
      Rec("flags", "invalid", 0, 1),
      Rec("version", "none", 0, 10300),
      Rec("version", "none", 0, 40000),
      Rec("version", "none", 0, 50000),
      Rec("version", "none", 0, CLIENT_VERSION),
      Rec("minversion", "none", 0, 300),
      Rec("minversion", "none", 0, FEATURE_LATEST + 1) }

\* the failure classification's inputs: a damaged record of every tag whose
\* loss is fatal, and damaged and valid records of other tags
FatalPool ==
    { KeyRec("key", "invalid", 2, 2, "hash"),
      KeyRec("key", "none", 1, 1, "badhash"),
      KeyRec("wkey", "value", 3, 0, "none"),
      Rec("mkey", "value", 1, 0),
      Rec("ckey", "load", 5, 1),
      Rec("ckey", "invalid", 6, 1),
      Rec("defaultkey", "invalid", 0, 0),
      Rec("flags", "invalid", 0, 1),
      Rec("flags", "value", 0, 0),
      Rec("name", "key", 0, 0),
      Rec("zerocoin", "tag", 0, 0),
      TxRec("invalid", 4, 0, 0, "none", 0),
      TxRec("none", 2, 31404, -1, "none", 0),
      KeyRec("key", "none", 3, 3, "none"),
      Rec("mkey", "none", 1, 7),
      Rec("keymeta", "none", 3, 0),
      Rec("zerocoin", "none", 1, 0) }

\* the legacy-window inputs: transactions with the marker at and next to both
\* ends of the window, with and without the trailing fields
TxPool ==
    { TxRec("none", 1, 31403, 0, "none", 0),
      TxRec("none", 2, 31404, 0, "none", 0),
      TxRec("none", 3, 31404, 0, "full", 1),
      TxRec("none", 4, 31703, -1, "full", 7),
      TxRec("none", 5, 31703, 0, "none", 0),
      TxRec("none", 6, 31704, 0, "full", 1),
      TxRec("none", 7, 31500, 0, "short", 0),
      TxRec("invalid", 8, 31500, 0, "none", 0),
      TxRec("value", 9, 0, 0, "none", 0),
      Rec("name", "value", 2, 0),
      Rec("version", "none", 0, CLIENT_VERSION),
      Rec("minversion", "none", 0, 300) }

\* the store holds one record per key
DistinctKeys(st) ==
    \A i, j \in 1..Len(st) :
        (i # j /\ st[i].tag = st[j].tag /\ st[i].key = st[j].key)
            => (st[i].dmg \in {"tag", "key"} \/ st[j].dmg \in {"tag", "key"})

Stores(pool) ==
    {st \in UNION {[1..n -> pool] : n \in 0..MaxRecords} : DistinctKeys(st)}

InitOn(stores) ==
    /\ store \in stores
    /\ store0 = store
    /\ op = "none"
    /\ pc = "idle"
    /\ cursor = 0
    /\ result = "OK"
    /\ fNoncriticalErrors = FALSE
    /\ wss = NewScanState
    /\ wallet = NewWallet
    /\ returned = "none"
    /\ rkv = <<>>
    /\ dbops = <<>>
    /\ rescan = FALSE
    /\ vTxHash = <<>>
    /\ vWtx = <<>>
    /\ pcursor = "none"
    /\ dbError = "none"
    /\ bk = NewBackupState(0, FALSE, {})
    /\ mc = NewCompactState(FALSE)
    /\ rcv = <<>>
    /\ zap = NewZap
    /\ batch = <<>>

Init == InitOn(Stores(Pool))

InitFatal == InitOn(Stores(FatalPool))

InitTx == InitOn(Stores(TxPool))

\* the backup directories AutoBackupWallet is run on: backups of the wallet,
\* two of them of the same last write time, and a backup of another wallet
BackupFiles ==
    { [stem |-> WalletStem, stamp |-> 1, mtime |-> 1],
      [stem |-> WalletStem, stamp |-> 2, mtime |-> 2],
      [stem |-> WalletStem, stamp |-> 3, mtime |-> 2],
      [stem |-> 2, stamp |-> 1, mtime |-> 0] }

\* no load or scan is running
LoadIdle ==
    /\ store = <<>>
    /\ store0 = <<>>
    /\ op = "none"
    /\ pc = "idle"
    /\ cursor = 0
    /\ result = "OK"
    /\ fNoncriticalErrors = FALSE
    /\ wss = NewScanState
    /\ wallet = NewWallet
    /\ returned = "none"
    /\ rkv = <<>>
    /\ dbops = <<>>
    /\ rescan = FALSE
    /\ vTxHash = <<>>
    /\ vWtx = <<>>
    /\ pcursor = "none"
    /\ dbError = "none"

InitBackup ==
    /\ LoadIdle
    /\ \E n \in 0..MaxBackups, exists \in BOOLEAN, dir \in SUBSET BackupFiles :
          /\ dir # {} => exists
          /\ bk = NewBackupState(n, exists, dir)
    /\ mc = NewCompactState(FALSE)
    /\ rcv = <<>>
    /\ zap = NewZap
    /\ batch = <<>>

\* the raw records the filter is fed: valid and damaged records of the tags
\* it keeps and of tags it drops
RecoverPool ==
    { KeyRec("key", "none", 1, 1, "hash"),
      KeyRec("key", "none", 2, 2, "badhash"),
      KeyRec("wkey", "none", 3, 3, "none"),
      KeyRec("wkey", "value", 4, 0, "none"),
      Rec("mkey", "none", 1, 7),
      Rec("mkey", "value", 2, 0),
      Rec("ckey", "none", 5, 1),
      Rec("ckey", "load", 6, 1),
      Rec("hdchain", "none", 0, 1),
      Rec("hdchain", "value", 0, 0),
      Rec("defaultkey", "none", 0, 1),
      Rec("keymeta", "none", 1, 0),
      Rec("name", "none", 1, 1),
      TxRec("none", 1, 0, 0, "none", 0),
      Rec("zerocoin", "tag", 0, 0) }

\* key and wkey records with and without the trailing hash, of private keys
\* that do and do not belong to the public key (equal numbers belong together)
KeyPool ==
    { KeyRec("key", "none", 1, 1, "hash"),
      KeyRec("key", "none", 2, 3, "hash"),
      KeyRec("key", "none", 4, 4, "badhash"),
      KeyRec("key", "none", 5, 5, "none"),
      KeyRec("key", "none", 6, 7, "none"),
      KeyRec("wkey", "none", 8, 8, "none"),
      KeyRec("wkey", "none", 9, 10, "none"),
      KeyRec("wkey", "none", 11, 12, "hash"),
      KeyRec("wkey", "none", 13, 13, "badhash"),
      KeyRec("key", "none", 14, 0, "hash"),
      Rec("flags", "invalid", 0, 1),
      Rec("name", "none", 1, 1) }

InitKey == InitOn(Stores(KeyPool))

\* master key records, two of them of the same id
MKeyPool ==
    { Rec("mkey", "none", 1, 7),
      Rec("mkey", "none", 1, 8),
      Rec("mkey", "none", 2, 9),
      Rec("mkey", "none", 3, 5),
      Rec("mkey", "value", 2, 0),
      Rec("flags", "invalid", 0, 1),
      Rec("name", "none", 1, 1) }

\* the record sequences ReadKeyValue is fed, ids repeated or not
Streams(pool) == UNION {[1..n -> pool] : n \in 0..MaxRecords}

InitMKey == InitOn(Streams(MKeyPool))

\* records of tags ReadKeyValue has no branch for, the ignored bookkeeping
\* tags among them, next to records it decodes
UnknownPool ==
    { Rec("zcserial", "none", 1, 1),
      Rec("zcaccumulator", "none", 1, 1),
      Rec("zerocoin", "none", 1, 1),
      Rec("zerocoin", "value", 2, 0),
      Rec("unloadedzerocoin", "key", 1, 1),
      Rec("calculatedzcblock", "none", 0, 1),
      Rec("bestblock", "none", 0, 0),
      Rec("bestblock_nomerkle", "none", 0, 1),
      Rec("minversion", "none", 0, 300),
      Rec("acentry", "none", 1, 1),
      Rec("name", "value", 2, 0),
      KeyRec("key", "none", 1, 1, "hash"),
      KeyRec("key", "invalid", 2, 2, "hash") }

InitUnknown == InitOn(Stores(UnknownPool))

\* keys, watch-only scripts and their metadata, with a damaged record of a
\* non-fatal tag and one of a fatal tag
MetaPool ==
    { KeyRec("key", "none", 1, 1, "hash"),
      KeyRec("wkey", "none", 2, 2, "none"),
      Rec("ckey", "none", 3, 1),
      Rec("watchs", "none", 1, 1),
      Rec("watchs", "none", 2, 0),
      Rec("keymeta", "none", 1, 0),
      Rec("keymeta", "none", 3, 0),
      Rec("watchmeta", "none", 1, 0),
      Rec("version", "none", 0, 40000),
      Rec("name", "value", 2, 0),
      KeyRec("key", "invalid", 4, 4, "hash") }

InitMeta == InitOn(Stores(MetaPool))

\* the two best-block slots, absent, empty, filled or unreadable, beside
\* a record of another key
BestPool ==
    { Rec("bestblock", "none", 0, EmptyLocator),
      Rec("bestblock", "none", 0, 1),
      Rec("bestblock", "value", 0, 0),
      Rec("bestblock_nomerkle", "none", 0, EmptyLocator),
      Rec("bestblock_nomerkle", "none", 0, 2),
      Rec("bestblock_nomerkle", "value", 0, 0),
      Rec("version", "none", 0, 169900) }

InitBest == InitOn(Stores(BestPool))

\* plaintext, legacy and encrypted key records of two public keys
CryptPool ==
    { KeyRec("key", "none", 1, 1, "hash"),
      KeyRec("wkey", "none", 1, 1, "none"),
      KeyRec("key", "none", 2, 2, "hash"),
      Rec("ckey", "none", 1, 5),
      Rec("keymeta", "none", 1, 0) }

InitCrypt == InitOn(Stores(CryptPool))

InitRecover == InitOn(Stores(RecoverPool))

\* the stores the erase operations are run on: transactions, a record of
\* another tag, and a transaction whose value does not deserialize
ZapPool ==
    { TxRec("none", 1, 0, 0, "none", 0),
      TxRec("none", 2, 0, 1, "none", 0),
      TxRec("none", 3, 0, 2, "none", 0),
      Rec("name", "none", 1, 1),
      TxRec("value", 4, 0, 0, "none", 0) }

InitZap == InitOn(Stores(ZapPool))

\* transactions, one of them failing the wallet's checks, transaction
\* records whose hash or value does not deserialize, a record whose tag
\* does not, and a record of another tag with a damaged value
ZapDamagedPool ==
    { TxRec("none", 1, 0, 0, "none", 0),
      TxRec("invalid", 2, 0, 1, "none", 0),
      TxRec("key", 3, 0, 0, "none", 0),
      TxRec("value", 4, 0, 0, "none", 0),
      Rec("name", "tag", 1, 1),
      Rec("name", "value", 2, 0) }

InitZapDamaged == InitOn(Stores(ZapDamagedPool))

InitCompact ==
    /\ LoadIdle
    /\ bk = NewBackupState(0, FALSE, {})
    /\ \E fFlushWallet \in BOOLEAN : mc = NewCompactState(fFlushWallet)
    /\ rcv = <<>>
    /\ zap = NewZap
    /\ batch = <<>>

Next ==
    \/ LoadWalletBegin
    \/ LoadWalletReadRecord
    \/ LoadWalletCursorEnd
    \/ LoadWalletCursorError
    \/ LoadWalletException
    \/ LoadWalletFinalize
    \/ FindWalletTxBegin
    \/ FindWalletTxReadRecord
    \/ FindWalletTxCursorEnd
    \/ FindWalletTxCursorError

Spec == Init /\ [][Next]_vars

SpecFatal == InitFatal /\ [][Next]_vars

SpecTx == InitTx /\ [][Next]_vars

NextBackup == AutoBackupWallet

SpecBackup == InitBackup /\ [][NextBackup]_vars

SpecKey == InitKey /\ [][Next]_vars

SpecMKey == InitMKey /\ [][Next]_vars

SpecUnknown == InitUnknown /\ [][Next]_vars

SpecMeta == InitMeta /\ [][Next]_vars

NextBest == CallWriteBestBlock \/ CallReadBestBlock

SpecBest == InitBest /\ [][NextBest]_vars

NextCrypt == CallWriteCryptedKey

SpecCrypt == InitCrypt /\ [][NextCrypt]_vars

NextRecover == RecoverKeysOnlyFilter

SpecRecover == InitRecover /\ [][NextRecover]_vars

NextZap ==
    \/ FindWalletTxBegin
    \/ FindWalletTxReadRecord
    \/ FindWalletTxCursorEnd
    \/ FindWalletTxCursorError
    \/ ZapSelectTxBegin
    \/ ZapSelectTxErase
    \/ ZapWalletTxBegin
    \/ ZapWalletTxErase

SpecZap == InitZap /\ [][NextZap]_vars

SpecZapDamaged == InitZapDamaged /\ [][NextZap]_vars

NextCompact ==
    \/ \E t \in Threads : MaybeCompactEnter(t)
    \/ \E t \in Threads : MaybeCompactCheckArg(t)
    \/ \E t \in Threads : MaybeCompactWallet(t)
    \/ \E t \in Threads : MaybeCompactLeave(t)
    \/ \E w \in Wallets : WalletUpdate(w)
    \/ Tick

SpecCompact == InitCompact /\ [][NextCompact]_vars

----------------------------------------------------------------------------
(* Properties                                                              *)

LoadDone == op = "LoadWallet" /\ pc = "done"

\* the scan read every record and closed the cursor: no engine failure
ScanCompleted == pcursor = "closed" /\ dbError = "none"

\* the positions at which ReadKeyValue returned false
FailedAt == {i \in 1..Len(rkv) : ~rkv[i].ok}

FailedWith(tags) == {i \in FailedAt : rkv[i].strType \in tags}

KeyBearingTags == {"key", "wkey", "mkey", "ckey", "defaultkey"}

Fatal == {"CORRUPT", "TOO_NEW"}

CallsOf(name) == {j \in 1..Len(wallet.calls) : wallet.calls[j][1] = name}

WritesOf(name) == {j \in 1..Len(dbops) : dbops[j].op = name}

\* C1: when ReadKeyValue has failed on a key, wkey, mkey, ckey, defaultkey or
\* flags record, LoadWallet returns CORRUPT or TOO_NEW, whatever the other
\* records are and wherever the failing record sits; when the scan ran to
\* its end and that record is the only failing one, the outcome is CORRUPT
\* for the key-bearing tags and defaultkey and TOO_NEW for flags.
C1_FatalClassification ==
    LoadDone =>
        /\ (FailedWith(KeyBearingTags \cup {"flags"}) # {}) => returned \in Fatal
        /\ \A i \in FailedAt :
             (FailedAt = {i} /\ ScanCompleted) =>
                 /\ rkv[i].strType \in KeyBearingTags => returned = "CORRUPT"
                 /\ rkv[i].strType = "flags" => returned = "TOO_NEW"

\* a failing wkey record read first, a valid record and a failing
\* non-fatal record after it
C1_Witness ==
    /\ LoadDone /\ ScanCompleted
    /\ Len(rkv) = 3
    /\ ~rkv[1].ok /\ rkv[1].strType = "wkey"
    /\ rkv[2].ok
    /\ ~rkv[3].ok /\ rkv[3].strType = "tx"
    /\ returned = "CORRUPT"

\* C2: LoadWallet surfaces the worst severity of the pass: a scan with both a
\* failing key-bearing (or defaultkey) record and a failing flags record
\* returns CORRUPT, whichever of the two is read first.
C2_WorstSeveritySurfaced ==
    (LoadDone /\ ScanCompleted
       /\ FailedWith(KeyBearingTags) # {} /\ FailedWith({"flags"}) # {})
    => returned = "CORRUPT"

\* C3: a LoadWallet that returns CORRUPT or TOO_NEW has issued no WriteTx
\* and no WriteVersion, has not called ReorderTransactions, and has left the
\* store as it was.
C3_FatalSkipsMigration ==
    (LoadDone /\ returned \in Fatal) =>
        /\ dbops = <<>>
        /\ store = store0
        /\ CallsOf("ReorderTransactions") = {}

\* a fatal load whose scan queued a legacy transaction, saw an unordered one
\* and an old file version
C3_Witness ==
    /\ LoadDone /\ ScanCompleted
    /\ returned = "CORRUPT"
    /\ wss.vWalletUpgrade # <<>>
    /\ wss.fAnyUnordered
    /\ wss.nFileVersion < CLIENT_VERSION

\* what a valid record leaves in the wallet model and the scan state
AppliedTo(w, s, r) ==
    CASE r.tag = "name" ->
           /\ DecodeDestination(r.key) \in DOMAIN w.mapAddressBook
           /\ w.mapAddressBook[DecodeDestination(r.key)].name = r.val
      [] r.tag = "tx" ->
           /\ r.key \in DOMAIN w.mapWallet
           /\ \E j \in 1..Len(w.calls) : w.calls[j] = <<"LoadToWallet", r.key>>
      [] r.tag = "key" ->
           \E j \in 1..Len(w.calls) : w.calls[j] = <<"LoadKey", r.key>>
      [] r.tag = "ckey" ->
           /\ \E j \in 1..Len(w.calls) : w.calls[j] = <<"LoadCryptedKey", r.key>>
           /\ s.fIsEncrypted
      [] r.tag = "version" ->
           s.nFileVersion = (IF r.val = 10300 THEN 300 ELSE r.val)
      [] r.tag = "minversion" ->
           \E j \in 1..Len(w.calls) : w.calls[j] = <<"LoadMinVersion", r.val>>
      [] OTHER -> TRUE

\* C4: when exactly one record fails to decode, its tag is name, purpose or
\* destdata, and the engine delivers the records, LoadWallet returns
\* NONCRITICAL_ERROR, the scan has read every record of the store, and every
\* other record, before and after the failing one, is applied to the wallet.
C4_NonFatalTolerated ==
    (LoadDone /\ dbError = "none" /\ pcursor # "null"
       /\ \E i \in FailedAt :
            FailedAt = {i} /\ rkv[i].strType \in {"name", "purpose", "destdata"})
    => /\ returned = "NONCRITICAL_ERROR"
       /\ Len(rkv) = Len(store0)
       /\ \A j \in (1..Len(store0)) \ FailedAt : AppliedTo(wallet, wss, store0[j])

\* a failing destdata record between a valid key and a valid transaction
C4_Witness ==
    /\ LoadDone
    /\ returned = "NONCRITICAL_ERROR"
    /\ Len(store0) = 3
    /\ FailedAt = {2} /\ rkv[2].strType = "destdata"
    /\ store0[1].tag = "key" /\ store0[3].tag = "tx"

\* C5: in a load of a store with one valid key record, one corrupt name
\* record and minversion = 300, the outcome is NONCRITICAL_ERROR, the key is
\* in the wallet model, and the corrupt name record leaves no entry and no
\* changed field in the address book.
C5_AddressBookUnaffected ==
    (LoadDone /\ ScanCompleted /\ Len(store0) = 3
       /\ \E i, j, k \in 1..3 :
            /\ store0[i].tag = "key" /\ store0[i].dmg = "none"
            /\ store0[j].tag = "name" /\ store0[j].dmg # "none"
            /\ store0[k] = Rec("minversion", "none", 0, 300))
    => /\ returned = "NONCRITICAL_ERROR"
       /\ \E c \in 1..Len(wallet.calls) : wallet.calls[c][1] = "LoadKey"
       /\ wallet.mapAddressBook = NewWallet.mapAddressBook

\* C6: with a minversion above FEATURE_LATEST in the store, LoadWallet and
\* FindWalletTx return TOO_NEW without requesting a cursor, reading a record,
\* touching the wallet or calling LoadMinVersion; with a minversion within
\* FEATURE_LATEST, LoadWallet's first call on the wallet is LoadMinVersion,
\* made before any record is applied; FindWalletTx never touches the wallet.
C6_MinVersionFirst ==
    LET mv == StoreRead(store0, "minversion", 0)
    IN /\ (op # "none" /\ mv.found /\ mv.value > FEATURE_LATEST) =>
            /\ pc = "done" /\ returned = "TOO_NEW"
            /\ pcursor = "none" /\ cursor = 0 /\ rkv = <<>>
            /\ wallet = NewWallet /\ wss = NewScanState
            /\ vTxHash = <<>> /\ vWtx = <<>>
       /\ (op = "LoadWallet" /\ mv.found /\ mv.value <= FEATURE_LATEST) =>
            /\ Len(wallet.calls) >= 1
            /\ wallet.calls[1] = <<"LoadMinVersion", mv.value>>
            /\ (pc = "scan" /\ cursor = 0) =>
                   wallet = Call(NewWallet, "LoadMinVersion", mv.value)
       /\ (op = "LoadWallet" /\ ~mv.found) => CallsOf("LoadMinVersion") = {}
       /\ op = "FindWalletTx" => wallet = NewWallet

\* LoadWallet returned TOO_NEW on a store whose first record, a valid key,
\* was never read
C6_Witness ==
    /\ LoadDone
    /\ returned = "TOO_NEW"
    /\ pcursor = "none"
    /\ Len(store0) = 3
    /\ store0[1].tag = "key" /\ store0[1].dmg = "none"
    /\ store0[3] = Rec("minversion", "none", 0, FEATURE_LATEST + 1)

\* the scan ended with result OK and no warning: the migration steps run
CleanScan == ScanCompleted /\ result = "OK" /\ ~fNoncriticalErrors

\* a ckey record was loaded and a version record with a legacy value read
LegacyEncrypted ==
    /\ \E i \in 1..Len(rkv) : rkv[i].ok /\ rkv[i].strType = "ckey"
    /\ \E i \in 1..Len(rkv) : /\ rkv[i].ok /\ rkv[i].strType = "version"
                              /\ store0[i].val \in {40000, 50000}

\* a successfully decoded tx record has order position -1
UnorderedTxLoaded ==
    \E i \in 1..Len(rkv) : rkv[i].ok /\ rkv[i].strType = "tx" /\ store0[i].pos = -1

\* C7 as stated: whenever the scan ends without a fatal outcome, also with
\* warnings recorded, LoadWallet calls WriteTx for every queued hash and
\* persists the current version when the file version is below it.
C7_FinalizeOnNonFatal ==
    (LoadDone /\ ScanCompleted /\ result \notin Fatal) =>
        /\ \A k \in 1..Len(wss.vWalletUpgrade) :
             \E j \in WritesOf("WriteTx") : dbops[j].arg = wss.vWalletUpgrade[k]
        /\ wss.nFileVersion < CLIENT_VERSION => WritesOf("WriteVersion") # {}

\* C7 amended: when the scan ends with result OK and no warning recorded,
\* LoadWallet calls WriteTx for every queued hash, in queue order, each
\* accepted write leaving the migrated transaction in the store, and, unless
\* it returns NEED_REWRITE, writes the current version exactly when the
\* file version is below it; when a warning was recorded or the result is
\* fatal it writes nothing.
C7_FinalizeOnCleanScan ==
    (LoadDone /\ ScanCompleted) =>
        IF CleanScan
        THEN /\ Len(dbops) >= Len(wss.vWalletUpgrade)
             /\ \A k \in 1..Len(wss.vWalletUpgrade) :
                  /\ dbops[k].op = "WriteTx"
                  /\ dbops[k].arg = wss.vWalletUpgrade[k]
                  /\ dbops[k].ok =>
                       \E i \in 1..Len(store) :
                           store[i] = WriteTx(dbops[k].arg,
                                              wallet.mapWallet[dbops[k].arg])
             /\ \A j \in WritesOf("WriteVersion") : dbops[j].arg = CLIENT_VERSION
             /\ WritesOf("WriteVersion") # {}
                  <=> (wss.nFileVersion < CLIENT_VERSION /\ returned # "NEED_REWRITE")
             /\ Len(dbops) <= Len(wss.vWalletUpgrade) + 1
        ELSE dbops = <<>> /\ store = store0

\* a clean scan that queued two legacy transactions and wrote the version
C7_Witness ==
    /\ LoadDone /\ CleanScan
    /\ Len(wss.vWalletUpgrade) = 2
    /\ Len(dbops) = 3
    /\ dbops[1].ok /\ ~dbops[2].ok
    /\ dbops[3].op = "WriteVersion"

\* C8 as stated: whenever the scan ends without a fatal outcome, a ckey record
\* was loaded and the file version is 40000 or 50000, LoadWallet returns
\* NEED_REWRITE, also when the prior status is NONCRITICAL_ERROR.
C8_NeedRewriteOnNonFatal ==
    (LoadDone /\ ScanCompleted /\ result \notin Fatal /\ LegacyEncrypted)
    => returned = "NEED_REWRITE"

\* C8 amended: with a ckey record loaded and file version 40000 or 50000,
\* LoadWallet returns NEED_REWRITE when the scan ends with result OK and no
\* warning recorded, without writing the version or reordering; when a
\* warning was recorded it returns NONCRITICAL_ERROR.
C8_NeedRewriteOnCleanScan ==
    (LoadDone /\ ScanCompleted /\ result \notin Fatal /\ LegacyEncrypted) =>
        IF fNoncriticalErrors
        THEN returned = "NONCRITICAL_ERROR"
        ELSE /\ returned = "NEED_REWRITE"
             /\ WritesOf("WriteVersion") = {}
             /\ CallsOf("ReorderTransactions") = {}

\* an encrypted wallet of version 50000 with an unordered transaction
C8_Witness ==
    /\ LoadDone /\ CleanScan /\ LegacyEncrypted
    /\ wss.nFileVersion = 50000
    /\ wss.fAnyUnordered
    /\ returned = "NEED_REWRITE"

\* C9 as stated, for the loads that reach Finalize (no fatal outcome): when a
\* successfully decoded tx record has order position -1, ReorderTransactions
\* is called exactly once and LoadWallet returns its outcome; otherwise it is
\* never called.
C9_ReorderOncePerLoad ==
    (LoadDone /\ ScanCompleted /\ result \notin Fatal) =>
        IF UnorderedTxLoaded
        THEN /\ Cardinality(CallsOf("ReorderTransactions")) = 1
             /\ returned = wallet.reordered
        ELSE CallsOf("ReorderTransactions") = {}

\* C9 amended: in a load whose scan ends with result OK and no warning
\* recorded and which does not return NEED_REWRITE, a successfully decoded
\* tx record with order position -1 makes LoadWallet call
\* ReorderTransactions exactly once, however many there are, and return its
\* outcome; in every other load ReorderTransactions is never called.
C9_ReorderOncePerCleanLoad ==
    LoadDone =>
        IF UnorderedTxLoaded /\ CleanScan /\ ~LegacyEncrypted
        THEN /\ Cardinality(CallsOf("ReorderTransactions")) = 1
             /\ wallet.reordered \in ReorderOutcomes
             /\ returned = wallet.reordered
        ELSE /\ CallsOf("ReorderTransactions") = {}
             /\ wallet.reordered = "none"

\* two unordered transactions, then an ordered one: one call, whose failure
\* LoadWallet returns
C9_Witness ==
    /\ LoadDone /\ CleanScan
    /\ Len(store0) = 3
    /\ store0[1].tag = "tx" /\ store0[1].pos = -1
    /\ store0[2].tag = "tx" /\ store0[2].pos = -1
    /\ store0[3].tag = "tx" /\ store0[3].pos # -1
    /\ Cardinality(CallsOf("ReorderTransactions")) = 1
    /\ returned = "LOAD_FAIL"

\* C10: once LoadWallet has read a version record, the scan state's file
\* version is 300 for a stored 10300 and the stored value otherwise; the
\* wallet's walletVersion has that value whenever LoadWallet gets past the
\* scan (line 521), and the rewrite test and the version bump are decided on
\* it.
C10_VersionRemap ==
    op = "LoadWallet" =>
        \A i \in 1..Len(rkv) :
            (rkv[i].ok /\ rkv[i].strType = "version") =>
                LET seen == IF store0[i].val = 10300 THEN 300 ELSE store0[i].val
                IN /\ wss.nFileVersion = seen
                   /\ (pc = "done" /\ dbError # "ReadAtCursor")
                          => wallet.walletVersion = seen
                   /\ (pc = "done" /\ CleanScan) =>
                          /\ returned = "NEED_REWRITE"
                               <=> (wss.fIsEncrypted /\ seen \in {40000, 50000})
                          /\ returned # "NEED_REWRITE" =>
                               (WritesOf("WriteVersion") # {} <=> seen < CLIENT_VERSION)

\* a stored 10300 between two other records, seen as 300 by the wallet and
\* bumped
C10_Witness ==
    /\ LoadDone /\ CleanScan
    /\ Len(store0) = 3
    /\ store0[2] = Rec("version", "none", 0, 10300)
    /\ wss.nFileVersion = 300
    /\ wallet.walletVersion = 300
    /\ WritesOf("WriteVersion") # {}

----------------------------------------------------------------------------
(* C11: the legacy transaction window                                      *)

InWindow(marker) == 31404 <= marker /\ marker <= 31703

\* the valid tx records LoadWallet has decoded so far: well formed, and any
\* trailing fields complete
DecodedTx ==
    {i \in 1..cursor : /\ store0[i].tag = "tx" /\ store0[i].dmg = "none"
                       /\ store0[i].extra \in {"none", "full"}}

TimesQueued(hash) ==
    Cardinality({j \in 1..Len(wss.vWalletUpgrade) : wss.vWalletUpgrade[j] = hash})

\* C11: a valid tx record whose marker fTimeReceivedIsTxTime lies in
\* [31404, 31703] is loaded into the wallet with the marker 0 when no bytes
\* follow the transaction and with the first trailing field's value when
\* trailing fields follow, and its hash is queued for migration exactly once
\* (and rewritten with the new marker by a clean load); a marker outside the
\* window is loaded unchanged and nothing is queued.
C11_LegacyWindow ==
    op = "LoadWallet" =>
        \A i \in DecodedTx :
            LET r == store0[i]
            IN /\ rkv[i].ok
               /\ r.key \in DOMAIN wallet.mapWallet
               /\ IF InWindow(r.marker)
                  THEN /\ wallet.mapWallet[r.key].fTimeReceivedIsTxTime =
                              (IF r.extra = "none" THEN 0 ELSE r.val)
                       /\ TimesQueued(r.key) = 1
                       /\ (LoadDone /\ CleanScan /\ returned # "none") =>
                              \E j \in WritesOf("WriteTx") :
                                  /\ dbops[j].arg = r.key
                                  /\ \A k \in WritesOf("WriteTx") :
                                         dbops[k].arg = r.key => k = j
                                  /\ dbops[j].ok =>
                                         StoreRead(store, "tx", r.key).found
                                         /\ \E n \in SlotOf(store, "tx", r.key) :
                                               store[n].marker =
                                                 (IF r.extra = "none" THEN 0 ELSE r.val)
                  ELSE /\ wallet.mapWallet[r.key].fTimeReceivedIsTxTime = r.marker
                       /\ TimesQueued(r.key) = 0

\* a clean load has migrated a window transaction with trailing fields and one
\* without, and loaded the two transactions next to the window unchanged
C11_Witness ==
    /\ LoadDone /\ CleanScan /\ returned = "OK"
    /\ \E i, j \in DecodedTx :
          /\ InWindow(store0[i].marker) /\ store0[i].extra = "full"
          /\ InWindow(store0[j].marker) /\ store0[j].extra = "none"
          /\ store0[j].marker = 31703
          /\ wallet.mapWallet[store0[i].key].fTimeReceivedIsTxTime = store0[i].val
          /\ wallet.mapWallet[store0[j].key].fTimeReceivedIsTxTime = 0
    /\ \E i \in DecodedTx : store0[i].marker \in {31403, 31704}
    /\ Len(dbops) >= 2

----------------------------------------------------------------------------
(* C12 - C15: AutoBackupWallet                                             *)

\* the backups of the wallet in a directory
Own(dir) == {f \in dir : f.stem = WalletStem}

Min(a, b) == IF a < b THEN a ELSE b

\* the deletions the last call attempted and the ones that succeeded
Deleted == {i \in 1..Len(bk.attempts) : bk.attempts[i].ok}

NotDeleted == {i \in 1..Len(bk.attempts) : ~bk.attempts[i].ok}

\* the wallet's backups the retention sweep of the last call started from
SweptFrom == Own(bk.dir) \cup {f \in Own(bk.dir0) : \E i \in Deleted : bk.attempts[i].file = Name(f)}

\* C12: after a rotation (a call that returns true) on a directory holding K
\* backups of the wallet, with retention N >= 1, in either snapshot mode,
\* exactly min(K+1, N) backups of the wallet remain, the removed ones are the
\* oldest by modification time, and the backups of other wallets are all
\* still there.
C12_Retention ==
    (bk.calls > 0 /\ bk.ret = "true") =>
        LET K == Cardinality(Own(bk.dir0))
            N == bk.nWalletBackups0
        IN /\ Cardinality(Own(bk.dir)) = Min(K + 1, N)
           /\ \A r \in Own(bk.dir0) \ Own(bk.dir), k \in Own(bk.dir) : r.mtime <= k.mtime
           /\ bk.dir \ Own(bk.dir) = bk.dir0 \ Own(bk.dir0)

\* C13: in the retention sweep a failed deletion does not end the sweep:
\* the deletion of every surplus backup is attempted, and the warning holds
\* the message of the last failure.
C13_SweepContinues ==
    (bk.calls > 0 /\ bk.swept /\ NotDeleted # {}) =>
        /\ Len(bk.attempts) = Cardinality(SweptFrom) - bk.nWalletBackups0
        /\ \E i \in NotDeleted :
              /\ \A j \in NotDeleted : j <= i
              /\ bk.strBackupWarning = [msg |-> "delete", file |-> bk.attempts[i].file]

\* C14: a call with a loaded wallet that is locked (backups enabled, the
\* backup directory there or created) returns false with the warning set and
\* the error empty, sets nWalletBackups to a negative value, and neither
\* creates nor deletes a file of the backup directory.
C14_LockedAborts ==
    (bk.calls > 0 /\ bk.fWallet /\ bk.fLocked /\ bk.nWalletBackups0 > 0 /\ bk.dirExists) =>
        /\ bk.ret = "false"
        /\ bk.strBackupWarning.msg = "locked"
        /\ bk.strBackupError = ""
        /\ bk.nWalletBackups < 0
        /\ bk.dir = bk.dir0
        /\ bk.attempts = <<>>

\* a locked wallet with more backups in the directory than the retention keeps
C14_Witness ==
    /\ bk.calls > 0 /\ bk.fWallet /\ bk.fLocked /\ bk.nWalletBackups0 > 0 /\ bk.dirExists
    /\ Cardinality(Own(bk.dir0)) > bk.nWalletBackups0
    /\ bk.nWalletBackups = -2
    /\ bk.dir = bk.dir0

\* the backup file of the last call already in the directory it found
NameTaken == \E f \in bk.dir0 : Name(f) = <<WalletStem, bk.now>>

\* C15: in file-only mode (backups enabled) a backup file of the same
\* timestamp-derived name already in the directory makes the call return
\* false with a warning; the existing backup is not overwritten, no backup is
\* deleted and nWalletBackups is left as it was.
C15_CollisionAborts ==
    (bk.calls > 0 /\ ~bk.fWallet /\ bk.nWalletBackups0 > 0 /\ NameTaken) =>
        /\ bk.ret = "false"
        /\ bk.strBackupWarning.msg = "exists"
        /\ bk.strBackupError = ""
        /\ bk.dir = bk.dir0
        /\ bk.attempts = <<>>
        /\ bk.nWalletBackups = bk.nWalletBackups0

\* a second call within the minute of the first one's backup, the source file
\* there and more backups in the directory than the retention keeps
C15_Witness ==
    /\ bk.calls = 2 /\ ~bk.fWallet /\ bk.fSource /\ bk.nWalletBackups0 > 0 /\ NameTaken
    /\ Cardinality(Own(bk.dir0)) > bk.nWalletBackups0
    /\ bk.ret = "false" /\ bk.nWalletBackups > 0
    /\ bk.dir = bk.dir0

----------------------------------------------------------------------------
(* C16: the compaction guard                                               *)

InLoop == {t \in Threads : mc.pc[t] = "loop"}

\* C16: under every interleaving of MaybeCompactWalletDB calls at most one
\* call is in the loop over the wallets; a call that finds the guard taken
\* has returned, has written no nLastSeen, nLastWalletUpdate or nLastFlushed
\* and flushed nothing, and never gets into the loop afterwards.
C16_OneSweepAtATime ==
    /\ Cardinality(InLoop) <= 1
    /\ \A t \in Threads :
          mc.refused[t] =>
              /\ mc.pc[t] = "returned"
              /\ mc.touched[t] = 0
              /\ \A i \in 1..Len(mc.flushes) : mc.flushes[i].thread # t

\* a call refused while another one, which has written to a handle, is in the
\* loop
C16_Witness ==
    \E t, u \in Threads :
        /\ t # u
        /\ mc.pc[t] = "loop" /\ mc.touched[t] > 0
        /\ mc.refused[u] /\ mc.pc[u] = "returned"

----------------------------------------------------------------------------
(* C17: the keys-only recovery filter                                      *)

KeptTags == {"key", "wkey", "mkey", "ckey", "hdchain"}

\* the records the filter has returned true for
KeptRecords == {i \in 1..Len(rcv) : rcv[i]}

\* C17: RecoverKeysOnlyFilter returns true for a raw record exactly when its
\* tag is key, wkey, mkey, ckey or hdchain and ReadKeyValue decoded it; so the
\* records kept of a mixed stream are successfully decoded records of these
\* tags only: damaged key records and valid records of every other tag,
\* defaultkey and keymeta among them, are dropped.
C17_KeysOnlyFilter ==
    op = "Recover" =>
        /\ Len(rcv) = cursor
        /\ \A i \in 1..Len(rcv) :
              /\ rcv[i] <=> (store[i].dmg # "tag" /\ store[i].tag \in KeptTags /\ rkv[i].ok)
              /\ rcv[i] => store[i].dmg = "none"
              /\ store[i].tag \in {"defaultkey", "keymeta"} => ~rcv[i]

\* a stream of a valid key record that is kept, a damaged key record that is
\* dropped and a valid defaultkey record that is dropped
C17_Witness ==
    /\ op = "Recover" /\ Len(rcv) = 3
    /\ \E i, j, k \in 1..3 :
          /\ store[i].tag = "key" /\ store[i].dmg = "none" /\ rcv[i]
          /\ store[j].tag \in {"key", "wkey"} /\ ~rkv[j].ok /\ ~rcv[j]
          /\ store[k].tag = "defaultkey" /\ rkv[k].ok /\ ~rcv[k]

----------------------------------------------------------------------------
(* C18, C19: the erase operations                                          *)

\* the transaction hashes FindWalletTx discovered
Discovered == {vTxHash[i] : i \in 1..Len(vTxHash)}

\* the hashes of the target list the call was given
Wanted == {zap.targets[i] : i \in 1..Len(zap.targets)}

Attempted == {zap.erases[i].hash : i \in 1..Len(zap.erases)}

Erased == {zap.erases[i].hash : i \in {j \in 1..Len(zap.erases) : zap.erases[j].ok}}

\* the store the operation started on without the transactions it erased
StoreLessErased ==
    SelectSeq(store0, LAMBDA r : ~(r.tag = "tx" /\ r.dmg \notin {"tag", "key"}
                                   /\ r.key \in Erased))

\* ZapSelectTx has returned after a FindWalletTx that returned DB_LOAD_OK
ZapSelectDone == zap.op = "ZapSelectTx" /\ zap.pc = "done" /\ returned = "OK"

\* C18: ZapSelectTx, whatever the order of the target list and the duplicates
\* in it, attempts EraseTx for exactly the hashes that are both in the target
\* list and in the store, each once, and appends exactly those hashes to
\* vTxHashOut in ascending order; it returns CORRUPT when an erase failed and
\* OK otherwise, and a failed erase does not stop the attempts on the
\* remaining matches.
C18_ZapSelectTx ==
    ZapSelectDone =>
        LET M == Wanted \cap Discovered
        IN /\ Attempted = M
           /\ Len(zap.erases) = Cardinality(M)
           /\ Len(zap.vTxHashOut) = Cardinality(M)
           /\ {zap.vTxHashOut[i] : i \in 1..Len(zap.vTxHashOut)} = M
           /\ \A i \in 1..Len(zap.vTxHashOut) - 1 : zap.vTxHashOut[i] < zap.vTxHashOut[i + 1]
           /\ zap.returned = (IF Attempted # Erased THEN "CORRUPT" ELSE "OK")
           /\ store = StoreLessErased

\* a target list out of order with a duplicate, and a transaction in the store
\* that is no target; the first erase failed and a later one was made
C18_Witness ==
    /\ ZapSelectDone
    /\ \E i \in 1..Len(zap.targets) - 1 : zap.targets[i] > zap.targets[i + 1]
    /\ \E i, j \in 1..Len(zap.targets) : i # j /\ zap.targets[i] = zap.targets[j]
    /\ Discovered \ Wanted # {}
    /\ Len(zap.erases) >= 2 /\ ~zap.erases[1].ok /\ zap.erases[2].ok
    /\ zap.returned = "CORRUPT"

\* C19: ZapWalletTx attempts EraseTx for every transaction hash FindWalletTx
\* discovered, whatever the result of the other erasures: when it has
\* returned, no discovered hash is left without an erase attempt.
C19_ZapWalletTxErasesAll ==
    (zap.op = "ZapWalletTx" /\ zap.pc = "done" /\ returned = "OK") =>
        Attempted = Discovered

----------------------------------------------------------------------------
(* C20: the integrity hash of key and wkey records                         *)

\* the well formed key and wkey records LoadWallet has read so far
ReadKeys ==
    {i \in 1..cursor : store0[i].tag \in {"key", "wkey"} /\ store0[i].dmg = "none"}

\* the wallet accepted the key of public key pub
KeyLoaded(pub) == \E j \in CallsOf("LoadKey") : wallet.calls[j][2] = pub

\* C20 as stated: a trailing hash that is present must equal
\* Hash(pubkey || privkey) or the record fails to decode (CORRUPT); with the
\* hash absent the check of the private key against the public key is
\* skipped and the key is loaded all the same.
C20_HashAbsentSkipsCheck ==
    op = "LoadWallet" =>
        \A i \in ReadKeys :
            LET r == store0[i]
            IN /\ r.extra = "badhash" =>
                     /\ ~rkv[i].ok /\ ~KeyLoaded(r.key)
                     /\ cursor = i => result = "CORRUPT"
               /\ r.extra = "none" => rkv[i].ok /\ KeyLoaded(r.key)

\* C20, amended: a trailing hash that is present must equal
\* Hash(pubkey || privkey) or the record fails to decode (result CORRUPT at
\* that record); when it matches, the private key is loaded without the check
\* against the public key; when the hash is absent the private key is checked
\* against the public key and the key is loaded only if it passes, the record
\* failing to decode (result CORRUPT at that record) otherwise.
C20_HashPresentSkipsCheck ==
    op = "LoadWallet" =>
        \A i \in ReadKeys :
            LET r == store0[i]
                failed == /\ ~rkv[i].ok /\ ~KeyLoaded(r.key)
                          /\ cursor = i => result = "CORRUPT"
                loaded == rkv[i].ok /\ KeyLoaded(r.key)
            IN /\ r.extra = "badhash" => failed
               /\ r.extra = "hash" => IF r.val # 0 THEN loaded ELSE failed
               /\ r.extra = "none" => IF r.val # 0 /\ r.val = r.key THEN loaded ELSE failed

\* a load that has read a key with a matching hash whose private key does not
\* belong to the public key (loaded), a key without hash whose private key
\* does not belong to it (failed) and a key without hash that passes the check
C20_Witness ==
    /\ op = "LoadWallet" /\ cursor = 3
    /\ \E i, j, k \in ReadKeys :
          /\ store0[i].extra = "hash" /\ store0[i].val # store0[i].key /\ KeyLoaded(store0[i].key)
          /\ store0[j].extra = "none" /\ store0[j].val # store0[j].key /\ ~rkv[j].ok
          /\ store0[k].extra = "none" /\ store0[k].val = store0[k].key /\ KeyLoaded(store0[k].key)
    /\ result = "CORRUPT"

----------------------------------------------------------------------------
(* C21: master key records                                                 *)

\* LoadWallet reads the next record, an mkey record whose key and value
\* deserialize
ReadsMKey ==
    /\ op = "LoadWallet" /\ pc = "scan" /\ cursor < Len(store)
    /\ cursor' = cursor + 1
    /\ store[cursor + 1].tag = "mkey" /\ store[cursor + 1].dmg = "none"

\* what reading an mkey record does to the wallet and the result
MKeyStep ==
    ReadsMKey =>
        LET r == store[cursor + 1]
        IN IF r.key \in DOMAIN wallet.mapMasterKeys
           THEN /\ ~rkv'[cursor + 1].ok
                /\ result' = "CORRUPT"
                /\ wallet'.mapMasterKeys = wallet.mapMasterKeys
                /\ wallet'.nMasterKeyMaxID = wallet.nMasterKeyMaxID
           ELSE /\ rkv'[cursor + 1].ok
                /\ result' = result
                /\ DOMAIN wallet'.mapMasterKeys = DOMAIN wallet.mapMasterKeys \cup {r.key}
                /\ wallet'.mapMasterKeys[r.key] = r.val
                /\ \A id \in DOMAIN wallet.mapMasterKeys :
                      wallet'.mapMasterKeys[id] = wallet.mapMasterKeys[id]

MaxIDCovers == \A id \in DOMAIN wallet.mapMasterKeys : wallet.nMasterKeyMaxID >= id

\* C21: an mkey record whose id is already in mapMasterKeys is rejected
\* (ReadKeyValue fails, the load result becomes CORRUPT and a fatal outcome
\* is returned) and leaves the master key stored for that id and
\* nMasterKeyMaxID as they were; every accepted record inserts its id; and
\* nMasterKeyMaxID is at least every id in mapMasterKeys and never decreases.
C21_MasterKeys ==
    /\ [](MaxIDCovers /\ ((LoadDone /\ FailedWith({"mkey"}) # {}) => returned \in Fatal))
    /\ [][MKeyStep /\ wallet'.nMasterKeyMaxID >= wallet.nMasterKeyMaxID]_vars

\* the master key of id 3 accepted, then the one of id 1, then a second one of
\* id 1 rejected
C21_Witness ==
    /\ op = "LoadWallet" /\ cursor = 3
    /\ store0[1].tag = "mkey" /\ store0[1].key = 3 /\ rkv[1].ok
    /\ store0[2].tag = "mkey" /\ store0[2].key = 1 /\ rkv[2].ok
    /\ store0[3].tag = "mkey" /\ store0[3].key = 1 /\ store0[3].val # store0[2].val
    /\ ~rkv[3].ok /\ result = "CORRUPT"
    /\ wallet.mapMasterKeys[1] = store0[2].val
    /\ wallet.nMasterKeyMaxID = 3

----------------------------------------------------------------------------
(* C22: records of unrecognized tags                                       *)

\* the tags ReadKeyValue has a branch for
DecodedTags ==
    {"name", "purpose", "tx", "watchs", "key", "wkey", "mkey", "ckey", "keymeta",
     "watchmeta", "defaultkey", "pool", "version", "cscript", "orderposnext",
     "destdata", "hdchain", "flags"}

Bookkeeping == {"bestblock", "bestblock_nomerkle", "minversion", "acentry"}

\* LoadWallet reads the next record, whose tag deserializes and has no branch
ReadsUndecoded ==
    /\ op = "LoadWallet" /\ pc = "scan" /\ cursor < Len(store)
    /\ cursor' = cursor + 1
    /\ store[cursor + 1].dmg # "tag"
    /\ store[cursor + 1].tag \notin DecodedTags

\* C22: a record of an unrecognized tag (zcserial, zcaccumulator, zerocoin,
\* unloadedzerocoin, calculatedzcblock among them) adds exactly one to the
\* unknown-record counter, decodes successfully, and changes nothing else of
\* the scan state, nothing of the wallet and nothing of the load outcome; a
\* record tagged bestblock, bestblock_nomerkle, minversion or acentry is
\* ignored and leaves the counter as it is.
C22_UnknownRecords ==
    [][ReadsUndecoded =>
          /\ rkv'[cursor + 1].ok
          /\ wallet' = wallet
          /\ result' = result
          /\ fNoncriticalErrors' = fNoncriticalErrors
          /\ rescan' = rescan
          /\ IF store[cursor + 1].tag \in Bookkeeping
             THEN wss' = wss
             ELSE wss' = [wss EXCEPT !.m_unknown_records = @ + 1]]_vars

\* a clean load of a zerocoin record whose value is damaged, a zcserial record
\* and an acentry record: two unknown records counted, outcome OK
C22_Witness ==
    /\ LoadDone /\ CleanScan /\ returned = "OK"
    /\ Len(rkv) = 3
    /\ \E i, j, k \in 1..3 :
          /\ store0[i].tag = "zerocoin" /\ store0[i].dmg = "value"
          /\ store0[j].tag = "zcserial"
          /\ store0[k].tag = "acentry"
    /\ wss.m_unknown_records = 2

----------------------------------------------------------------------------
(* C23: UpdateTimeFirstKey                                                 *)

\* the number of records of the given tags LoadWallet was given
RecordsOf(tags) == Cardinality({i \in 1..Len(store0) : store0[i].tag \in tags})

\* keys without metadata, or metadata without keys, by the scan's counters
CountersDiffer == (wss.nKeys + wss.nCKeys + wss.nWatchKeys) # wss.nKeyMeta

\* C23 as stated: in every load that reaches Finalize (no fatal outcome),
\* UpdateTimeFirstKey(1) is called exactly when plaintext keys + encrypted
\* keys + watch keys differ from the key metadata count.
C23_UpdateTimeOnNonFatal ==
    (LoadDone /\ ScanCompleted /\ result \notin Fatal) =>
        ((CallsOf("UpdateTimeFirstKey") # {}) <=> CountersDiffer)

\* C23, amended: in every load whose scan ends with result OK and no warning
\* recorded, UpdateTimeFirstKey(1) is called, once, exactly when the number
\* of key records (wkey records not counted) plus ckey records plus watchs
\* records differs from the number of keymeta plus watchmeta records; in
\* every other load it is not called.
C23_UpdateTimeOnCleanScan ==
    LoadDone =>
        /\ \A j \in CallsOf("UpdateTimeFirstKey") : wallet.calls[j][2] = 1
        /\ Cardinality(CallsOf("UpdateTimeFirstKey")) <= 1
        /\ IF CleanScan
           THEN /\ wss.nKeys = RecordsOf({"key"})
                /\ wss.nCKeys = RecordsOf({"ckey"})
                /\ wss.nWatchKeys = RecordsOf({"watchs"})
                /\ wss.nKeyMeta = RecordsOf({"keymeta", "watchmeta"})
                /\ (CallsOf("UpdateTimeFirstKey") # {}) <=>
                      (RecordsOf({"key"}) + RecordsOf({"ckey"}) + RecordsOf({"watchs"})
                           # RecordsOf({"keymeta", "watchmeta"}))
           ELSE CallsOf("UpdateTimeFirstKey") = {}

\* a clean load of an encrypted key and a watch-only script without
\* metadata: the call is made, also in the load that returns NEED_REWRITE
C23_Witness ==
    /\ LoadDone /\ CleanScan
    /\ RecordsOf({"ckey"}) = 1 /\ RecordsOf({"watchs"}) = 1
    /\ RecordsOf({"version"}) = 1
    /\ returned = "NEED_REWRITE"
    /\ Cardinality(CallsOf("UpdateTimeFirstKey")) = 1

----------------------------------------------------------------------------
(* C24: the best-block locator                                             *)

\* the calls of the log whose operation is name
BatchCalls(name) == {i \in 1..Len(batch) : batch[i].op = name}

\* the step is a ReadBestBlock call
ReadsBestBlock == Len(batch') = Len(batch) + 1 /\ batch'[Len(batch')].op = "ReadBestBlock"

\* C24: a ReadBestBlock that follows a WriteBestBlock(L) whose two writes
\* succeeded returns true with L, for every L; after such a write the
\* bestblock slot holds the empty locator and the bestblock_nomerkle slot
\* holds L; and every ReadBestBlock returns the bestblock slot when that
\* slot is readable and not empty, and otherwise what the read of the
\* bestblock_nomerkle slot gives.
C24_BestBlockRoundTrip ==
    /\ [](\A i \in BatchCalls("WriteBestBlock") :
            (batch[i].writes = <<TRUE, TRUE>>) =>
                /\ batch[i].ret
                /\ (i = Len(batch)) =>
                      /\ StoreRead(store, "bestblock", 0)
                             = [found |-> TRUE, value |-> EmptyLocator]
                      /\ StoreRead(store, "bestblock_nomerkle", 0)
                             = [found |-> TRUE, value |-> batch[i].arg]
                /\ (i + 1 \in BatchCalls("ReadBestBlock")) =>
                      (batch[i + 1].ret /\ batch[i + 1].out = batch[i].arg))
    /\ [][ReadsBestBlock =>
            LET c == batch'[Len(batch')]
                first == StoreRead(store, "bestblock", 0)
                second == StoreRead(store, "bestblock_nomerkle", 0)
            IN /\ store' = store
               /\ IF first.found /\ first.value # EmptyLocator
                  THEN c.ret /\ c.out = first.value
                  ELSE c.ret = second.found /\ (c.ret => c.out = second.value)]_vars

\* a store whose bestblock slot held a locator with hashes: both writes of
\* WriteBestBlock(2) succeed and the read that follows returns 2 into a
\* caller's locator that held 1
C24_Witness ==
    /\ StoreRead(store0, "bestblock", 0) = [found |-> TRUE, value |-> 1]
    /\ Len(batch) = 2
    /\ batch[1] = BatchCall("WriteBestBlock", 2, <<TRUE, TRUE>>, TRUE, EmptyLocator)
    /\ batch[2] = BatchCall("ReadBestBlock", 1, <<>>, TRUE, 2)

----------------------------------------------------------------------------
(* C25: when MaybeCompactWalletDB flushes                                  *)

\* the step called PeriodicFlush
Flushes == Len(mc'.flushes) = Len(mc.flushes) + 1

\* C25: a sweep calls PeriodicFlush for a wallet only when the wallet's
\* update counter differs from nLastFlushed, the sweep had seen that counter
\* value before, and at least 2 seconds have passed since it saw the counter
\* change; nLastFlushed changes only in a step whose PeriodicFlush succeeded,
\* and then to the counter that step observed; a flush that fails leaves it.
C25_FlushOnlyWhenDue ==
    [][/\ Flushes =>
            LET f == mc'.flushes[Len(mc'.flushes)]
                d == mc.dbh[f.wallet]
            IN /\ d.nUpdateCounter # d.nLastFlushed
               /\ d.nLastSeen = d.nUpdateCounter
               /\ f.time = mc.time
               /\ mc.time - d.nLastWalletUpdate >= 2
               /\ mc'.dbh[f.wallet].nLastWalletUpdate = d.nLastWalletUpdate
               /\ mc'.dbh[f.wallet].nLastFlushed =
                      IF f.ok THEN d.nUpdateCounter ELSE d.nLastFlushed
       /\ \A w \in Wallets :
            mc'.dbh[w].nLastFlushed # mc.dbh[w].nLastFlushed =>
                /\ Flushes
                /\ mc'.flushes[Len(mc'.flushes)].wallet = w
                /\ mc'.flushes[Len(mc'.flushes)].ok
                /\ mc'.dbh[w].nLastFlushed = mc.dbh[w].nUpdateCounter]_vars

\* the first wallet's flush succeeded two seconds after its write was
\* seen; the second wallet's write, seen by the same sweep, was not flushed
C25_Witness ==
    /\ Len(mc.flushes) = 1
    /\ mc.flushes[1].wallet = 1 /\ mc.flushes[1].ok
    /\ mc.dbh[1].nLastFlushed = mc.dbh[1].nUpdateCounter
    /\ mc.dbh[1].nLastFlushed > 0
    /\ mc.dbh[2].nUpdateCounter > 0
    /\ mc.dbh[2].nLastSeen = mc.dbh[2].nUpdateCounter
    /\ mc.dbh[2].nLastWalletUpdate = mc.flushes[1].time
    /\ mc.dbh[2].nLastFlushed = 0
    /\ \A t \in Threads : mc.pc[t] = "returned"

----------------------------------------------------------------------------
(* C26: the backups disabled                                               *)

\* the last call found the backups enabled and left the directory missing:
\* create_directories returned false
MkdirFailed == bk.calls > 0 /\ bk.nWalletBackups0 > 0 /\ ~bk.dirExists

\* the last call found nWalletBackups not positive
CalledDisabled == bk.calls > 0 /\ bk.nWalletBackups0 <= 0

\* C26: a call that cannot create the missing backup directory returns false
\* with the error string set, the warning string empty and nWalletBackups
\* negative; a call that finds nWalletBackups not positive returns false,
\* leaves both strings empty and nWalletBackups as it was, and creates,
\* copies and deletes no file; and a nWalletBackups that is not positive is
\* never changed again.
C26_DisabledStaysDisabled ==
    /\ [](MkdirFailed =>
            /\ bk.ret = "false"
            /\ bk.strBackupError # ""
            /\ bk.strBackupWarning = NoWarning
            /\ bk.nWalletBackups < 0
            /\ bk.dir = bk.dir0 /\ bk.attempts = <<>>)
    /\ [](CalledDisabled =>
            /\ bk.ret = "false"
            /\ bk.strBackupError = ""
            /\ bk.strBackupWarning = NoWarning
            /\ bk.nWalletBackups = bk.nWalletBackups0
            /\ bk.dir = bk.dir0 /\ bk.attempts = <<>> /\ ~bk.swept)
    /\ [][bk.nWalletBackups <= 0 =>
            /\ bk'.nWalletBackups = bk.nWalletBackups
            /\ bk'.dir = bk.dir
            /\ bk'.dirExists = bk.dirExists]_vars

\* the second call, for a wallet file that exists, after the call that could
\* not create the directory
C26_Witness ==
    /\ bk.calls = 2 /\ ~bk.fWallet /\ bk.fSource
    /\ ~bk.dirExists /\ bk.nWalletBackups0 = -1
    /\ bk.nWalletBackups = -1
    /\ bk.ret = "false" /\ bk.strBackupError = ""

----------------------------------------------------------------------------
(* C27: WriteCryptedKey keeps the key material                             *)

\* the step is a WriteCryptedKey call
WritesCryptedKey == Len(batch') = Len(batch) + 1 /\ batch'[Len(batch')].op = "WriteCryptedKey"

\* the records of the given tags stored for the public key
KeyRecords(st, tags, pub) == {i \in 1..Len(st) : st[i].tag \in tags /\ st[i].key = pub}

\* the records of st, as a set
Stored(st) == {st[i] : i \in 1..Len(st)}

\* C27: a WriteCryptedKey call that removes a key or wkey record of the
\* public key has written the ckey record and returns true; a call whose
\* keymeta write or ckey write fails returns false and leaves every key, wkey
\* and ckey record of the store as it was; after a call that returns true
\* the store holds the ckey record with the secret of the call, and, when
\* both erasures succeed, no key or wkey record of the public key; records
\* of other public keys are never touched.
C27_KeyMaterialKept ==
    [][WritesCryptedKey =>
        LET c == batch'[Len(batch')]
            pub == c.arg
            plain == {store[i] : i \in KeyRecords(store, {"key", "wkey"}, pub)}
            Secrets(st) == {r \in Stored(st) : r.tag \in {"key", "wkey", "ckey"}}
        IN /\ c.ret = (c.writes[1] /\ c.writes[2]
                          /\ KeyRecords(store, {"ckey"}, pub) = {})
           /\ (~ plain \subseteq Stored(store')) => c.ret
           /\ ~c.ret => Secrets(store') = Secrets(store)
           /\ c.ret =>
                /\ Rec("ckey", "none", pub, 7) \in Stored(store')
                /\ StoreRead(store', "keymeta", pub).found
                /\ (c.writes[3] /\ c.writes[4]) =>
                       KeyRecords(store', {"key", "wkey"}, pub) = {}
           /\ {r \in Secrets(store') : r.key # pub} = {r \in Secrets(store) : r.key # pub}]_vars

\* a public key with a key and a wkey record is encrypted: the call returns
\* true and only the ckey record is left; a second call for the same public
\* key is refused by the ckey record and changes nothing
C27_Witness ==
    /\ KeyRecords(store0, {"key"}, 1) # {} /\ KeyRecords(store0, {"wkey"}, 1) # {}
    /\ Len(batch) = 2
    /\ batch[1] = BatchCall("WriteCryptedKey", 1, <<TRUE, TRUE, TRUE, TRUE>>, TRUE, 0)
    /\ batch[2].arg = 1 /\ batch[2].writes[2] /\ ~batch[2].ret
    /\ KeyRecords(store, {"key", "wkey"}, 1) = {}
    /\ KeyRecords(store, {"ckey"}, 1) # {}

----------------------------------------------------------------------------
(* C28: FindWalletTx and damaged records                                   *)

FindDone == op = "FindWalletTx" /\ pc = "done"

\* what FindWalletTx cannot deserialize: a tag, or the hash or value of a tx
Undecodable(r) == r.dmg = "tag" \/ (r.tag = "tx" /\ r.dmg \in {"key", "value"})

\* the tx records of st, in cursor order
RECURSIVE TxRecords(_)
TxRecords(st) ==
    IF st = <<>> THEN <<>>
    ELSE (IF Head(st).tag = "tx" THEN <<Head(st)>> ELSE <<>>) \o TxRecords(Tail(st))

\* C28: a FindWalletTx scan that reads a record whose tag, or a tx record
\* whose hash or value, does not deserialize ends there and returns CORRUPT,
\* as does one whose cursor read fails; ZapSelectTx and ZapWalletTx return
\* what FindWalletTx returned when that is not OK, with no EraseTx call, the
\* store as it was and vTxHashOut empty; and when FindWalletTx returns OK no
\* record of the store was undecodable and vTxHash and vWtx hold the hashes
\* and the transactions of exactly the store's tx records, one entry per
\* record, in cursor order.
C28_FindWalletTxStrict ==
    /\ [][(op = "FindWalletTx" /\ pc = "scan" /\ cursor' = cursor + 1
              /\ Undecodable(store[cursor + 1]))
             => (pc' = "done" /\ returned' = "CORRUPT")]_vars
    /\ []((FindDone /\ dbError # "none") => returned = "CORRUPT")
    /\ []((FindDone /\ zap.pc = "done" /\ returned # "OK") =>
             /\ zap.returned = returned
             /\ zap.erases = <<>>
             /\ zap.vTxHashOut = <<>>
             /\ store = store0)
    /\ []((FindDone /\ returned = "OK") =>
             LET txs == TxRecords(store0)
             IN /\ \A i \in 1..Len(store0) : ~Undecodable(store0[i])
                /\ Len(vTxHash) = Len(txs) /\ Len(vWtx) = Len(txs)
                /\ \A i \in 1..Len(txs) :
                      /\ vTxHash[i] = txs[i].key
                      /\ vWtx[i] = [fTimeReceivedIsTxTime |-> txs[i].marker,
                                    nOrderPos |-> txs[i].pos])

\* ZapSelectTx is asked to erase a transaction of the store; FindWalletTx
\* collects it, passes over a record of another tag with a damaged value and
\* stops at a tx record whose value does not deserialize: nothing is erased
C28_Witness ==
    /\ zap.op = "ZapSelectTx" /\ zap.pc = "done"
    /\ FindDone /\ returned = "CORRUPT" /\ dbError = "exception"
    /\ Len(store0) = 3 /\ cursor = 3
    /\ store0[2] = Rec("name", "value", 2, 0)
    /\ store0[3].tag = "tx" /\ store0[3].dmg = "value"
    /\ Len(vTxHash) = 1
    /\ \E i \in 1..Len(zap.targets) : zap.targets[i] = vTxHash[1]
    /\ zap.returned = "CORRUPT" /\ store = store0

----------------------------------------------------------------------------
(* C29: the compaction guard released                                      *)

\* the calls that hold the guard: past the exchange and not yet returned
Sweeping == {t \in Threads : mc.pc[t] \in {"arg", "loop"}}

\* C29: the guard is set only while a call that acquired it has not yet
\* returned, also when -flushwallet is disabled; so a call is refused only
\* while another call is between its acquisition and its return.
C29_GuardHeldOnlyWhileSweeping ==
    /\ [](mc.fOneThread => Sweeping # {})
    /\ [][\A t \in Threads :
            (mc.pc[t] = "idle" /\ mc'.pc[t] = "returned" /\ mc'.refused[t])
                => Sweeping # {}]_vars

============================================================================
